---------------------------- MODULE Spec2Model ----------------------------
(***************************************************************************)
(* A model of the bitsy/nettle hardware simulator.                         *)
(*                                                                         *)
(*  - Sim (nettle/src/sim.rs): the net-based, push-driven simulator with   *)
(*    peek / poke / set / clock / reset and external instances.            *)
(*  - nets / driver_for (nettle/src/sim.rs): net inference, modelled both  *)
(*    as a pure operator (used by Sim::new) and step by step (so that a    *)
(*    walk that never ends is a behaviour of the model).                   *)
(***************************************************************************)
EXTENDS Integers, Sequences, FiniteSets, TLC

VARIABLES
    circuit,      \* the name of the circuit the simulator was built from
    net_values,   \* Sim.net_values : NetId -> Value
    exts,         \* Sim.exts : the ext paths that have an instance attached
    clock_ticks,  \* Sim.clock_ticks
    lastOp,       \* the call that produced this state
    pre,          \* net_values as they were when lastOp was called
    trace,        \* what lastOp did, in order: wire evaluations, callbacks
    overflow,     \* lastOp did not return: it recursed without end or panicked
    nw,           \* net inference, step by step (nets / driver_for)
    since_reset,  \* <<k>>: the calls since the last reset() are k clock()s
    resolver      \* the resolver, step by step (resolve / order_items)

vars == <<circuit, net_values, exts, clock_ticks, lastOp, pre, trace, overflow,
          nw, since_reset, resolver>>

-----------------------------------------------------------------------------
(* Bounds of the model.                                                    *)

\* clock() calls counted before the tick counter stops the model
MaxTicks == 2
\* nesting depth of poke -> broadcast_update -> poke the model follows
MaxDepth == 12
\* steps of one driver_for walk that are counted (the counter saturates)
MaxWalk == 8
\* clock() calls the counter of the seed tests is followed for (it wraps at 16)
MaxCount == 17

-----------------------------------------------------------------------------
(* Paths: dotted sequences of segments, ordered as the strings are.        *)

SegOrder == <<"a", "b", "c", "ext", "ext2", "i", "in", "k", "mon", "o", "out", "p",
              "q", "r", "s", "set", "sub", "top", "val", "x", "y">>

SegRank(s) == CHOOSE i \in 1..Len(SegOrder) : SegOrder[i] = s

RECURSIVE PathLess(_, _)
PathLess(p, q) ==
    IF p = <<>> THEN q # <<>>
    ELSE IF q = <<>> THEN FALSE
    ELSE IF Head(p) = Head(q) THEN PathLess(Tail(p), Tail(q))
    ELSE SegRank(Head(p)) < SegRank(Head(q))

parent(p) == SubSeq(p, 1, Len(p) - 1)

set(p) == Append(p, "set")

join(p, child) == Append(p, child)

\* the paths of S in descending order
RECURSIVE SortedDescending(_)
SortedDescending(S) ==
    IF S = {} THEN <<>>
    ELSE LET m == CHOOSE x \in S : \A y \in S \ {x} : PathLess(y, x)
         IN  <<m>> \o SortedDescending(S \ {m})

\* the paths of S in ascending order (the iteration order of a BTreeMap/BTreeSet)
RECURSIVE Sorted(_)
Sorted(S) ==
    IF S = {} THEN <<>>
    ELSE LET m == CHOOSE x \in S : \A y \in S \ {x} : PathLess(x, y)
         IN  <<m>> \o Sorted(S \ {m})

-----------------------------------------------------------------------------
(* Values and expressions.                                                 *)

\* Value::X, the unknown value; the words are the naturals below 2^width
X == -1

WordValues(width) == 0..(2^width - 1)

Values(width) == {X} \cup WordValues(width)

Reference(p) == [op |-> "Reference", path |-> p]
Word(v) == [op |-> "Word", val |-> v]
Add(e1, e2) == [op |-> "Add", e1 |-> e1, e2 |-> e2]
Mux(c, t, f) == [op |-> "Mux", c |-> c, e1 |-> t, e2 |-> f]
Hole == [op |-> "Hole"]

\* Expr::paths: the paths of the Reference leaves
RECURSIVE paths(_)
paths(e) ==
    CASE e.op = "Reference" -> {e.path}
      [] e.op = "Add" -> paths(e.e1) \cup paths(e.e2)
      [] e.op = "Mux" -> paths(e.c) \cup paths(e.e1) \cup paths(e.e2)
      [] OTHER -> {}

\* Expr::free_vars
RECURSIVE free_vars(_)
free_vars(e) ==
    CASE e.op = "Reference" -> {e.path}
      [] e.op = "Add" -> free_vars(e.e1) \cup free_vars(e.e2)
      [] e.op = "Mux" -> free_vars(e.c) \cup free_vars(e.e1) \cup free_vars(e.e2)
      [] OTHER -> {}

is_constant(e) == free_vars(e) = {}

\* Expr::depends_on(path): the expression names the path itself
depends_on(e, path) == path \in paths(e)

-----------------------------------------------------------------------------
(* Circuits.  A circuit is what Sim::new reads from a Circuit: its         *)
(* terminals, its registers with their reset values, its wires (in program *)
(* order) and its external instances with their ports.                     *)

Connect == "Connect"
Latch == "Latch"

Wire(target, expr, typ) == [target |-> target, expr |-> expr, typ |-> typ]

T(name) == <<"top", name>>

NoExts == [e \in {} |-> [kind |-> "echo", incoming |-> {}, outgoing |-> {}]]

\* s := a + b  (the adder of the seed tests)
Adder ==
    [name |-> "Adder", width |-> 1,
     terminals |-> {T("a"), T("b"), T("out")},
     regs |-> {}, reset |-> [r \in {} |-> X],
     wires |-> <<Wire(T("out"), Add(Reference(T("a")), Reference(T("b"))), Connect)>>,
     exts |-> NoExts]

\* diamond fan-out: a := p + 1; b := p + p; out := a + b
Diamond ==
    [name |-> "Diamond", width |-> 1,
     terminals |-> {T("p"), T("a"), T("b"), T("out")},
     regs |-> {}, reset |-> [r \in {} |-> X],
     wires |-> <<Wire(T("a"), Add(Reference(T("p")), Word(1)), Connect),
                 Wire(T("b"), Add(Reference(T("p")), Reference(T("p"))), Connect),
                 Wire(T("out"), Add(Reference(T("a")), Reference(T("b"))), Connect)>>,
     exts |-> NoExts]

\* a net of two terminals: b := in; out := b + 1; q := in + 1
Alias ==
    [name |-> "Alias", width |-> 1,
     terminals |-> {T("in"), T("b"), T("out"), T("q")},
     regs |-> {}, reset |-> [r \in {} |-> X],
     wires |-> <<Wire(T("b"), Reference(T("in")), Connect),
                 Wire(T("out"), Add(Reference(T("b")), Word(1)), Connect),
                 Wire(T("q"), Add(Reference(T("in")), Word(1)), Connect)>>,
     exts |-> NoExts]

\* reg c reset 0; c <= c + 1; out := c  (the counter of the seed tests)
Counter ==
    [name |-> "Counter", width |-> 2,
     terminals |-> {T("c"), set(T("c")), T("out")},
     regs |-> {T("c")}, reset |-> [r \in {T("c")} |-> 0],
     wires |-> <<Wire(T("c"), Add(Reference(T("c")), Word(1)), Latch),
                 Wire(T("out"), Reference(T("c")), Connect)>>,
     exts |-> NoExts]

\* a shift register: reg a; reg b; b <= a; out := b + 0
ShiftAB ==
    [name |-> "ShiftAB", width |-> 1,
     terminals |-> {T("a"), set(T("a")), T("b"), set(T("b")), T("out")},
     regs |-> {T("a"), T("b")}, reset |-> [r \in {T("a"), T("b")} |-> 0],
     wires |-> <<Wire(T("b"), Reference(T("a")), Latch),
                 Wire(T("out"), Add(Reference(T("b")), Word(0)), Connect)>>,
     exts |-> NoExts]

\* the same shift register, shifting the other way: a <= b; out := a + 0
ShiftBA ==
    [name |-> "ShiftBA", width |-> 1,
     terminals |-> {T("a"), set(T("a")), T("b"), set(T("b")), T("out")},
     regs |-> {T("a"), T("b")}, reset |-> [r \in {T("a"), T("b")} |-> 1],
     wires |-> <<Wire(T("a"), Reference(T("b")), Latch),
                 Wire(T("out"), Add(Reference(T("a")), Word(0)), Connect)>>,
     exts |-> NoExts]

\* constant wires: k := 1; out := mux(k, 1, in); reg r reset X; r <= 1
Consts ==
    [name |-> "Consts", width |-> 1,
     terminals |-> {T("k"), T("in"), T("out"), T("r"), set(T("r"))},
     regs |-> {T("r")}, reset |-> [r \in {T("r")} |-> X],
     wires |-> <<Wire(T("k"), Word(1), Connect),
                 Wire(T("out"), Mux(Reference(T("k")), Word(1), Reference(T("in"))), Connect),
                 Wire(T("r"), Word(1), Latch)>>,
     exts |-> NoExts]

\* an echo external behind a register:
\* reg r reset 1; r <= in + 0; ext.i := r; out := ext.o
Echo ==
    [name |-> "Echo", width |-> 1,
     terminals |-> {T("in"), T("r"), set(T("r")), T("out"),
                    <<"top", "ext", "i">>, <<"top", "ext", "o">>},
     regs |-> {T("r")}, reset |-> [r \in {T("r")} |-> 1],
     wires |-> <<Wire(T("r"), Add(Reference(T("in")), Word(0)), Latch),
                 Wire(<<"top", "ext", "i">>, Reference(T("r")), Connect),
                 Wire(T("out"), Reference(<<"top", "ext", "o">>), Connect)>>,
     exts |-> [e \in {T("ext")} |->
                    [kind |-> "echo", incoming |-> {"i"}, outgoing |-> {"o"}]]]

\* the counter of the seed tests at its width:
\* reg c: Word<4> reset 0; c <= c + 1; out := c
Counter4 ==
    [name |-> "Counter4", width |-> 4,
     terminals |-> {T("c"), set(T("c")), T("out")},
     regs |-> {T("c")}, reset |-> [r \in {T("c")} |-> 0],
     wires |-> <<Wire(T("c"), Add(Reference(T("c")), Word(1)), Latch),
                 Wire(T("out"), Reference(T("c")), Connect)>>,
     exts |-> NoExts]

\* the external echo of the seed tests: ext.i := in; out := ext.o
EchoIn ==
    [name |-> "EchoIn", width |-> 2,
     terminals |-> {T("in"), T("out"),
                    <<"top", "ext", "i">>, <<"top", "ext", "o">>},
     regs |-> {}, reset |-> [r \in {} |-> X],
     wires |-> <<Wire(<<"top", "ext", "i">>, Reference(T("in")), Connect),
                 Wire(T("out"), Reference(<<"top", "ext", "o">>), Connect)>>,
     exts |-> [e \in {T("ext")} |->
                    [kind |-> "echo", incoming |-> {"i"}, outgoing |-> {"o"}]]]

\* an external that answers an update of i with two values for o, and wires
\* that read its incoming port:
\* ext.i := in; mon := ext.i + 0; q := mon + 0; out := ext.o + 0
Twice ==
    [name |-> "Twice", width |-> 1,
     terminals |-> {T("in"), T("mon"), T("q"), T("out"),
                    <<"top", "ext", "i">>, <<"top", "ext", "o">>},
     regs |-> {}, reset |-> [r \in {} |-> X],
     wires |-> <<Wire(<<"top", "ext", "i">>, Reference(T("in")), Connect),
                 Wire(T("mon"), Add(Reference(<<"top", "ext", "i">>), Word(0)), Connect),
                 Wire(T("q"), Add(Reference(T("mon")), Word(0)), Connect),
                 Wire(T("out"), Add(Reference(<<"top", "ext", "o">>), Word(0)), Connect)>>,
     exts |-> [e \in {T("ext")} |->
                    [kind |-> "twice", incoming |-> {"i"}, outgoing |-> {"o"}]]]

\* two registers and two externals that answer clock():
\* reg r reset 0; r <= in + 0; ext.i := r; out := ext.o + 0;
\* q := ext2.o + 0; reg s reset 0; s <= out + 0
Ticker ==
    [name |-> "Ticker", width |-> 1,
     terminals |-> {T("in"), T("r"), set(T("r")), T("s"), set(T("s")), T("out"),
                    T("q"), <<"top", "ext", "i">>, <<"top", "ext", "o">>,
                    <<"top", "ext2", "o">>},
     regs |-> {T("r"), T("s")}, reset |-> [r \in {T("r"), T("s")} |-> 0],
     wires |-> <<Wire(T("r"), Add(Reference(T("in")), Word(0)), Latch),
                 Wire(<<"top", "ext", "i">>, Reference(T("r")), Connect),
                 Wire(T("out"), Add(Reference(<<"top", "ext", "o">>), Word(0)), Connect),
                 Wire(T("q"), Add(Reference(<<"top", "ext2", "o">>), Word(0)), Connect),
                 Wire(T("s"), Add(Reference(T("out")), Word(0)), Latch)>>,
     exts |-> [e \in {T("ext"), T("ext2")} |->
                    IF e = T("ext")
                    THEN [kind |-> "ticker", incoming |-> {"i"}, outgoing |-> {"o"}]
                    ELSE [kind |-> "ticker", incoming |-> {}, outgoing |-> {"o"}]]]

\* an echo external whose answer is wired back into its incoming port:
\* ext.i := ext.o + in; out := ext.o + 0
Loopback ==
    [name |-> "Loopback", width |-> 1,
     terminals |-> {T("in"), T("out"),
                    <<"top", "ext", "i">>, <<"top", "ext", "o">>},
     regs |-> {}, reset |-> [r \in {} |-> X],
     wires |-> <<Wire(<<"top", "ext", "i">>,
                      Add(Reference(<<"top", "ext", "o">>), Reference(T("in"))),
                      Connect),
                 Wire(T("out"), Add(Reference(<<"top", "ext", "o">>), Word(0)), Connect)>>,
     exts |-> [e \in {T("ext")} |->
                    [kind |-> "echo", incoming |-> {"i"}, outgoing |-> {"o"}]]]

\* an echo external whose incoming port is driven by a constant:
\* ext.i := 1; out := ext.o + 0; mon := in + 0
ConstEcho ==
    [name |-> "ConstEcho", width |-> 1,
     terminals |-> {T("in"), T("mon"), T("out"),
                    <<"top", "ext", "i">>, <<"top", "ext", "o">>},
     regs |-> {}, reset |-> [r \in {} |-> X],
     wires |-> <<Wire(<<"top", "ext", "i">>, Word(1), Connect),
                 Wire(T("out"), Add(Reference(<<"top", "ext", "o">>), Word(0)), Connect),
                 Wire(T("mon"), Add(Reference(T("in")), Word(0)), Connect)>>,
     exts |-> [e \in {T("ext")} |->
                    [kind |-> "echo", incoming |-> {"i"}, outgoing |-> {"o"}]]]

\* a combinational cycle fed by an input: a := b + in; b := a + 0; out := b + 0
CombLoop ==
    [name |-> "CombLoop", width |-> 1,
     terminals |-> {T("in"), T("a"), T("b"), T("out")},
     regs |-> {}, reset |-> [r \in {} |-> X],
     wires |-> <<Wire(T("a"), Add(Reference(T("b")), Reference(T("in"))), Connect),
                 Wire(T("b"), Add(Reference(T("a")), Word(0)), Connect),
                 Wire(T("out"), Add(Reference(T("b")), Word(0)), Connect)>>,
     exts |-> NoExts]

\* the adder of the seed tests at its width: s := a + b over Word<8>
Adder8 ==
    [name |-> "Adder8", width |-> 8,
     terminals |-> {T("a"), T("b"), T("s")},
     regs |-> {}, reset |-> [r \in {} |-> X],
     wires |-> <<Wire(T("s"), Add(Reference(T("a")), Reference(T("b"))), Connect)>>,
     exts |-> NoExts]

\* Circuit::wires collected as Sim::new does: a map keyed by target
WireTargets(c) == {c.wires[i].target : i \in 1..Len(c.wires)}

wires(c) ==
    [t \in WireTargets(c) |->
        LET i == CHOOSE j \in 1..Len(c.wires) :
                    /\ c.wires[j].target = t
                    /\ \A k \in (j + 1)..Len(c.wires) : c.wires[k].target # t
        IN  [expr |-> c.wires[i].expr, typ |-> c.wires[i].typ]]

\* the terminal a wire drives: target for Connect, target.set() for Latch
target_terminal(target, typ) == IF typ = Latch THEN set(target) ELSE target

-----------------------------------------------------------------------------
(* Net inference as Sim::new uses it (nets, driver_for, Net).              *)

\* nets, first loop: target terminal -> source of its direct reference wire
immediate_driver_for(c) ==
    LET refs == {i \in 1..Len(c.wires) : c.wires[i].expr.op = "Reference"}
        tt(i) == target_terminal(c.wires[i].target, c.wires[i].typ)
    IN  [t \in {tt(i) : i \in refs} |->
            LET last == CHOOSE i \in refs :
                           /\ tt(i) = t
                           /\ \A k \in refs : tt(k) = t => k <= i
            IN  c.wires[last].expr.path]

\* driver_for: follow immediate_driver_for until a path without an entry
RECURSIVE driver_for(_, _)
driver_for(terminal, idf) ==
    IF terminal \in DOMAIN idf THEN driver_for(idf[terminal], idf) ELSE terminal

\* Net(driver, drivees): Net::from followed by Net::add of every terminal
Net(driver, terminals) ==
    [driver |-> driver, drivees |-> Sorted(terminals \ {driver})]

\* Net::contains
contains(net, terminal) ==
    \/ terminal = net.driver
    \/ \E i \in 1..Len(net.drivees) : net.drivees[i] = terminal

\* nets(circuit): one net per driver, in ascending order of driver
nets(c) ==
    LET idf == immediate_driver_for(c)
        drivers == {driver_for(t, idf) : t \in c.terminals}
        order == Sorted(drivers)
    IN  [id \in 0..(Len(order) - 1) |->
            Net(order[id + 1],
                {t \in c.terminals : driver_for(t, idf) = order[id + 1]})]

\* a map that sends every drivee to the net after its own
NetIdOfDriverOnly(c) ==
    LET ns == nets(c)
        own(path) == CHOOSE id \in DOMAIN ns : contains(ns[id], path)
    IN  [path \in c.terminals |->
            IF ns[own(path)].driver = path THEN own(path)
            ELSE (own(path) + 1) % Cardinality(DOMAIN ns)]

\* Sim::new, netid_by_path: the first net that contains the terminal
NetIdByPath(c) ==
    LET ns == nets(c)
    IN  [path \in c.terminals |->
            CHOOSE id \in DOMAIN ns :
                /\ contains(ns[id], path)
                /\ \A other \in DOMAIN ns : contains(ns[other], path) => id <= other]

-----------------------------------------------------------------------------
(* What Sim::new keeps of a circuit: the circuit, the net of each terminal, *)
(* the wires by target and the registers, both in ascending order.         *)

SimOf(c) ==
    [c |-> c,
     nets |-> nets(c),
     nid |-> NetIdByPath(c),
     wires |-> wires(c),
     targets |-> Sorted(WireTargets(c)),
     regs |-> Sorted(c.regs)]

\* the circuits the simulator is built from: their wire graphs are acyclic
Circuits == {Adder, Diamond, Alias, Counter, ShiftAB, ShiftBA, Consts, Echo}

CircuitNames == {c.name : c \in Circuits}

\* every circuit a simulator is built from in some specification
SimCircuits == Circuits \cup {Counter4, EchoIn, Twice, CombLoop, Adder8, Ticker, Loopback, ConstEcho}

Sims == [n \in {c.name : c \in SimCircuits} |->
            SimOf(CHOOSE c \in SimCircuits : c.name = n)]

-----------------------------------------------------------------------------
(* Expression evaluation over the net values.                              *)

RECURSIVE eval(_, _, _, _)
eval(e, nv, nid, width) ==
    CASE e.op = "Reference" -> nv[nid[e.path]]
      [] e.op = "Word" -> e.val % (2^width)
      [] e.op = "Add" ->
            LET v1 == eval(e.e1, nv, nid, width)
                v2 == eval(e.e2, nv, nid, width)
            IN  IF v1 = X \/ v2 = X THEN X ELSE (v1 + v2) % (2^width)
      [] e.op = "Mux" ->
            LET vc == eval(e.c, nv, nid, width)
            IN  IF vc = X THEN X
                ELSE IF vc # 0 THEN eval(e.e1, nv, nid, width)
                ELSE eval(e.e2, nv, nid, width)
      [] OTHER -> X

-----------------------------------------------------------------------------
(* External instances: the echo box of the seed tests.                     *)

\* ExtInstance::update: the echo answers i with [("o", v)]; the external of
\* Twice answers i with [("o", 0), ("o", v)]
ExtUpdate(kind, port, value) ==
    CASE kind = "echo" /\ port = "i" -> <<<<"o", value>>>>
      [] kind = "twice" /\ port = "i" -> <<<<"o", 0>>, <<"o", value>>>>
      [] OTHER -> <<>>

\* ExtInstance::clock: the ticker answers every clock with [("o", 1)], the
\* others with nothing
ExtClock(kind) == IF kind = "ticker" THEN <<<<"o", 1>>>> ELSE <<>>

-----------------------------------------------------------------------------
(* Sim.  The operators take the simulator's immutable part S (SimOf, with  *)
(* the attached externals S.exts) and its running state                    *)
(* st = [nv, tr, ov, fr]: the net values, the events so far, whether the   *)
(* recursion was found not to end, and the calls of broadcast_update in    *)
(* progress, each with the net values it was entered with.  A call entered *)
(* with the terminal and the net values of a call still in progress        *)
(* repeats what that call did, and so on for ever: nothing in the code     *)
(* compares values or counts depth.                                        *)

Event(ev, path, value) == [ev |-> ev, path |-> path, value |-> value]

Log(st, ev, path, value) == [st EXCEPT !.tr = Append(@, Event(ev, path, value))]

NoPath == <<>>

\* net_id_by_path[&path] for a path that is no key of the map: the index
\* panics with "no entry found for key", a message that names no path
Panic(st) == [Log(st, "panic", NoPath, X) EXCEPT !.ov = TRUE]

\* Sim::peek
peek(S, nv, path) == nv[S.nid[path]]

\* is_reg without its second disjunct
is_reg_parent_only(S, path) == parent(path) \in S.c.regs

\* Sim::is_reg
is_reg(S, path) == parent(path) \in S.c.regs \/ path \in S.c.regs

\* the last segment of an ext port's path: terminal[ext_path.len() + 1..]
port_name(terminal) == terminal[Len(terminal)]

RECURSIVE poke(_, _, _, _, _)
RECURSIVE broadcast_update(_, _, _, _)
RECURSIVE broadcast_wires(_, _, _, _, _)
RECURSIVE poke_all(_, _, _, _, _)

\* a poke that writes the net and never broadcasts
poke_write_only(S, st, path, value, depth) ==
    IF path \notin DOMAIN S.nid THEN Panic(st)
    ELSE [st EXCEPT !.nv[S.nid[path]] = value]

\* Sim::poke
poke(S, st, path, value, depth) ==
    IF path \notin DOMAIN S.nid THEN Panic(st)
    ELSE LET written == [st EXCEPT !.nv[S.nid[path]] = value]
         IN  IF ~is_reg(S, path)
             THEN broadcast_update(S, written, path, depth)
             ELSE written

\* a set that does what poke does
sim_set_as_poke(S, st, path, value, depth) == poke(S, st, path, value, depth)

\* Sim::set
sim_set(S, st, path, value, depth) ==
    IF path \notin DOMAIN S.nid THEN Panic(st)
    ELSE LET written == [st EXCEPT !.nv[S.nid[path]] = value]
         IN  broadcast_update(S, written, path, depth)

\* a propagation that evaluates the readers but does not recurse from them
RECURSIVE broadcast_wires_one_level(_, _, _, _, _)
broadcast_wires_one_level(S, st, terminal, targets, depth) ==
    IF targets = <<>> \/ st.ov THEN st
    ELSE LET target == Head(targets)
             w == S.wires[target]
             value == eval(w.expr, st.nv, S.nid, S.c.width)
             after ==
                IF depends_on(w.expr, terminal)
                THEN [Log(st, "eval", target, value) EXCEPT
                        !.nv[S.nid[target_terminal(target, w.typ)]] = value]
                ELSE st
         IN  broadcast_wires_one_level(S, after, terminal, Tail(targets), depth)

\* a loop that evaluates every wire, whether it names the terminal or not
RECURSIVE broadcast_wires_every_wire(_, _, _, _, _)
broadcast_wires_every_wire(S, st, terminal, targets, depth) ==
    IF targets = <<>> \/ st.ov THEN st
    ELSE LET target == Head(targets)
             w == S.wires[target]
             value == eval(w.expr, st.nv, S.nid, S.c.width)
         IN  broadcast_wires_every_wire(
                 S, poke(S, Log(st, "eval", target, value),
                         target_terminal(target, w.typ), value, depth - 1),
                 terminal, Tail(targets), depth)

\* Sim::broadcast_update, the loop over the wires in ascending target order
broadcast_wires(S, st, terminal, targets, depth) ==
    IF targets = <<>> \/ st.ov THEN st
    ELSE LET target == Head(targets)
             w == S.wires[target]
             after ==
                IF depends_on(w.expr, terminal)
                THEN LET value == eval(w.expr, st.nv, S.nid, S.c.width)
                     IN  poke(S, Log(st, "eval", target, value),
                              target_terminal(target, w.typ), value, depth - 1)
                ELSE st
         IN  broadcast_wires(S, after, terminal, Tail(targets), depth)

\* an external's answer applied last entry first
RECURSIVE poke_all_reversed(_, _, _, _, _)
poke_all_reversed(S, st, ext_path, updates, depth) ==
    IF updates = <<>> \/ st.ov THEN st
    ELSE poke(S, poke_all_reversed(S, st, ext_path, Tail(updates), depth),
              join(ext_path, Head(updates)[1]), Head(updates)[2], depth - 1)

\* poke every (port, value) of an external's answer, in list order
poke_all(S, st, ext_path, updates, depth) ==
    IF updates = <<>> \/ st.ov THEN st
    ELSE poke_all(S,
                  poke(S, st, join(ext_path, Head(updates)[1]), Head(updates)[2],
                       depth - 1),
                  ext_path, Tail(updates), depth)

\* a broadcast_update that calls the external back before it visits the wires
broadcast_update_ext_first(S, st, terminal, depth) ==
    IF depth = 0 THEN [st EXCEPT !.ov = TRUE]
    ELSE LET ext_path == parent(terminal)
             called ==
                IF ext_path \in S.exts
                   /\ port_name(terminal) \in S.c.exts[ext_path].incoming
                THEN LET value == peek(S, st.nv, terminal)
                         updates == ExtUpdate(S.c.exts[ext_path].kind,
                                              port_name(terminal), value)
                     IN  poke_all(S, Log(st, "update", terminal, value),
                                  ext_path, updates, depth)
                ELSE st
         IN  broadcast_wires(S, called, terminal, S.targets, depth)

\* a broadcast_update that visits the wires and never calls an external back
broadcast_update_wires_only(S, st, terminal, depth) ==
    IF depth = 0 THEN [st EXCEPT !.ov = TRUE]
    ELSE broadcast_wires(S, st, terminal, S.targets, depth)

\* a broadcast_update that calls the external back for any of its ports
broadcast_update_any_port(S, st, terminal, depth) ==
    IF depth = 0 THEN [st EXCEPT !.ov = TRUE]
    ELSE IF <<terminal, st.nv>> \in st.fr
    THEN [Log(st, "reentered", terminal, X) EXCEPT !.ov = TRUE]
    ELSE LET entered == [Log(st, "broadcast", terminal, X) EXCEPT
                            !.fr = @ \cup {<<terminal, st.nv>>}]
             wired == broadcast_wires(S, entered, terminal, S.targets, depth)
             ext_path == parent(terminal)
             called ==
                IF ~wired.ov /\ ext_path \in S.exts
                THEN LET value == peek(S, wired.nv, terminal)
                         updates == ExtUpdate(S.c.exts[ext_path].kind,
                                              port_name(terminal), value)
                     IN  poke_all(S, Log(wired, "update", terminal, value),
                                  ext_path, updates, depth)
                ELSE wired
         IN  IF called.ov THEN called
             ELSE [Log(called, "done", terminal, X) EXCEPT !.fr = st.fr]

\* Sim::broadcast_update
broadcast_update(S, st, terminal, depth) ==
    IF depth = 0 THEN [st EXCEPT !.ov = TRUE]
    ELSE IF <<terminal, st.nv>> \in st.fr
    THEN [Log(st, "reentered", terminal, X) EXCEPT !.ov = TRUE]
    ELSE LET entered == [Log(st, "broadcast", terminal, X) EXCEPT
                            !.fr = @ \cup {<<terminal, st.nv>>}]
             wired == broadcast_wires(S, entered, terminal, S.targets, depth)
             ext_path == parent(terminal)
             called ==
                IF ~wired.ov /\ ext_path \in S.exts
                   /\ port_name(terminal) \in S.c.exts[ext_path].incoming
                THEN LET value == peek(S, wired.nv, terminal)
                         updates == ExtUpdate(S.c.exts[ext_path].kind,
                                              port_name(terminal), value)
                     IN  poke_all(S, Log(wired, "update", terminal, value),
                                  ext_path, updates, depth)
                ELSE wired
         IN  IF called.ov THEN called
             ELSE [Log(called, "done", terminal, X) EXCEPT !.fr = st.fr]

\* constant wires evaluated but their targets poked without propagation
RECURSIVE constants_loop_no_broadcast(_, _, _, _)
constants_loop_no_broadcast(S, st, targets, depth) ==
    IF targets = <<>> \/ st.ov THEN st
    ELSE LET target == Head(targets)
             w == S.wires[target]
             value == eval(w.expr, st.nv, S.nid, S.c.width)
             after ==
                IF is_constant(w.expr)
                THEN [Log(st, "eval", target, value) EXCEPT
                        !.nv[S.nid[target_terminal(target, w.typ)]] = value]
                ELSE st
         IN  constants_loop_no_broadcast(S, after, Tail(targets), depth)

\* Sim::broadcast_update_constants
RECURSIVE constants_loop(_, _, _, _)
constants_loop(S, st, targets, depth) ==
    IF targets = <<>> \/ st.ov THEN st
    ELSE LET target == Head(targets)
             w == S.wires[target]
             after ==
                IF is_constant(w.expr)
                THEN LET value == eval(w.expr, st.nv, S.nid, S.c.width)
                     IN  poke(S, Log(st, "eval", target, value),
                              target_terminal(target, w.typ), value, depth)
                ELSE st
         IN  constants_loop(S, after, Tail(targets), depth)

broadcast_update_constants(S, st, depth) ==
    constants_loop(S, st, S.targets, depth)

\* Sim::clock, first loop: every register takes the value of its .set
RECURSIVE latch_regs(_, _, _, _)
latch_regs(S, st, regs, depth) ==
    IF regs = <<>> THEN st
    ELSE LET path == Head(regs)
             set_value == peek(S, st.nv, set(path))
         IN  latch_regs(S, poke(S, Log(st, "latch", path, set_value),
                                path, set_value, depth),
                        Tail(regs), depth)

\* Sim::clock, second loop: ext.clock() of every external, answers collected
RECURSIVE clock_exts(_, _, _)
clock_exts(S, st, ext_paths) ==
    IF ext_paths = <<>> THEN [st |-> st, poke_values |-> <<>>]
    ELSE LET ext_path == Head(ext_paths)
             updates == ExtClock(S.c.exts[ext_path].kind)
             rest == clock_exts(S, Log(st, "ext_clock", ext_path, 0),
                                Tail(ext_paths))
         IN  [st |-> rest.st,
              poke_values |->
                  [i \in 1..Len(updates) |->
                      <<join(ext_path, updates[i][1]), updates[i][2]>>]
                  \o rest.poke_values]

\* poke every (path, value) of a list, in list order
RECURSIVE poke_values_loop(_, _, _, _)
poke_values_loop(S, st, poke_values, depth) ==
    IF poke_values = <<>> \/ st.ov THEN st
    ELSE poke_values_loop(S,
                          poke(S, st, Head(poke_values)[1], Head(poke_values)[2],
                               depth),
                          Tail(poke_values), depth)

\* the registers are written but none of them is broadcast
broadcast_regs_none(S, st, regs, depth) == st

\* broadcast_update of every register path, in ascending order
RECURSIVE broadcast_regs(_, _, _, _)
broadcast_regs(S, st, regs, depth) ==
    IF regs = <<>> \/ st.ov THEN st
    ELSE broadcast_regs(S, broadcast_update(S, st, Head(regs), depth),
                        Tail(regs), depth)

\* a clock that pokes the answer of each external before it calls the next
RECURSIVE clock_exts_poke_each(_, _, _, _)
clock_exts_poke_each(S, st, ext_paths, depth) ==
    IF ext_paths = <<>> \/ st.ov THEN st
    ELSE LET ext_path == Head(ext_paths)
             updates == ExtClock(S.c.exts[ext_path].kind)
         IN  clock_exts_poke_each(
                 S, poke_all(S, Log(st, "ext_clock", ext_path, 0), ext_path,
                             updates, depth + 1),
                 Tail(ext_paths), depth)

clock_poke_each(S, st, depth) ==
    LET latched == latch_regs(S, st, S.regs, depth)
        poked == clock_exts_poke_each(S, latched, Sorted(S.exts), depth)
    IN  broadcast_regs(S, poked, S.regs, depth)

\* Sim::clock (the net values; the tick counter is the action's)
clock(S, st, depth) ==
    LET latched == latch_regs(S, st, S.regs, depth)
        clocked == clock_exts(S, latched, Sorted(S.exts))
        poked == poke_values_loop(S, clocked.st, clocked.poke_values, depth)
    IN  broadcast_regs(S, poked, S.regs, depth)

\* Sim::reset, first loop: every register takes its reset value
RECURSIVE reset_regs(_, _, _, _)
reset_regs(S, st, regs, depth) ==
    IF regs = <<>> THEN st
    ELSE reset_regs(S, poke(S, st, Head(regs), S.c.reset[Head(regs)], depth),
                    Tail(regs), depth)

\* Sim::reset, second loop: ext.reset() of every external
RECURSIVE reset_exts(_, _)
reset_exts(st, ext_paths) ==
    IF ext_paths = <<>> THEN st
    ELSE reset_exts(Log(st, "ext_reset", Head(ext_paths), 0), Tail(ext_paths))

\* a reset that writes the registers but does not broadcast them
reset_no_broadcast(S, st, depth) ==
    reset_exts(reset_regs(S, st, S.regs, depth), Sorted(S.exts))

\* Sim::reset
reset(S, st, depth) ==
    LET written == reset_regs(S, st, S.regs, depth)
        exts_reset == reset_exts(written, Sorted(S.exts))
    IN  broadcast_regs(S, exts_reset, S.regs, depth)

-----------------------------------------------------------------------------
(* The simulator as a state machine: one action per public call.           *)

WithExts(S, attached) ==
    [c |-> S.c, nets |-> S.nets, nid |-> S.nid, wires |-> S.wires,
     targets |-> S.targets, regs |-> S.regs, exts |-> attached]

Sim == WithExts(Sims[circuit], exts)

Running == [nv |-> net_values, tr |-> <<>>, ov |-> FALSE, fr |-> {}]

Op(op, path, value) == [op |-> op, path |-> path, value |-> value]

Idle == [phase |-> "idle"]

NoClocks == <<>>

\* Sim::new(circuit), for a circuit of the given names
New(names) ==
    /\ circuit \in names
    /\ exts = {}
    /\ clock_ticks = 0
    /\ pre = [id \in DOMAIN Sims[circuit].nets |-> X]
    /\ LET st == broadcast_update_constants(
                     WithExts(Sims[circuit], {}),
                     [nv |-> pre, tr |-> <<>>, ov |-> FALSE, fr |-> {}], MaxDepth)
       IN  /\ net_values = st.nv
           /\ trace = st.tr
           /\ overflow = st.ov
    /\ lastOp = Op("new", NoPath, X)
    /\ nw = Idle
    /\ since_reset = NoClocks
    /\ resolver = Idle

\* Sim::new
Init == New(CircuitNames)

\* the call returned st
Returned(st) ==
    /\ net_values' = st.nv
    /\ trace' = st.tr
    /\ overflow' = st.ov
    /\ pre' = net_values
    /\ UNCHANGED <<circuit, nw, resolver>>

\* an ext that attaches the external and does not run the constants again
ExtAttachOnly(path) ==
    /\ ~overflow
    /\ exts' = exts \cup {path}
    /\ Returned(Running)
    /\ lastOp' = Op("ext", path, X)
    /\ since_reset' = NoClocks
    /\ UNCHANGED clock_ticks

\* Sim::ext(path, inst)
Ext(path) ==
    /\ ~overflow
    /\ exts' = exts \cup {path}
    /\ Returned(broadcast_update_constants(
                    WithExts(Sims[circuit], exts'), Running, MaxDepth))
    /\ lastOp' = Op("ext", path, X)
    /\ since_reset' = NoClocks
    /\ UNCHANGED clock_ticks

\* Sim::poke(path, value)
Poke(path, value) ==
    /\ ~overflow
    /\ Returned(poke(Sim, Running, path, value, MaxDepth))
    /\ lastOp' = Op("poke", path, value)
    /\ since_reset' = NoClocks
    /\ UNCHANGED <<exts, clock_ticks>>

\* Sim::set(path, value)
Set(path, value) ==
    /\ ~overflow
    /\ Returned(sim_set(Sim, Running, path, value, MaxDepth))
    /\ lastOp' = Op("set", path, value)
    /\ since_reset' = NoClocks
    /\ UNCHANGED <<exts, clock_ticks>>

\* Sim::peek(path), as a call of its own: the value read is lastOp's
PeekAt(path) ==
    /\ ~overflow
    /\ IF path \in DOMAIN Sim.nid
       THEN /\ Returned(Running)
            /\ lastOp' = Op("peek", path, peek(Sim, net_values, path))
       ELSE /\ Returned(Panic(Running))
            /\ lastOp' = Op("peek", path, X)
    /\ UNCHANGED <<exts, clock_ticks, since_reset>>

\* Sim::clock(), while fewer than limit ticks were counted
ClockUpTo(limit) ==
    /\ ~overflow
    /\ clock_ticks < limit
    /\ clock_ticks' = clock_ticks + 1
    /\ Returned(clock(Sim, Running, MaxDepth))
    /\ lastOp' = Op("clock", NoPath, X)
    /\ since_reset' = IF since_reset = NoClocks THEN NoClocks
                      ELSE <<since_reset[1] + 1>>
    /\ UNCHANGED exts

\* Sim::clock()
Clock == ClockUpTo(MaxTicks)

\* Sim::reset()
Reset ==
    /\ ~overflow
    /\ Returned(reset(Sim, Running, MaxDepth))
    /\ lastOp' = Op("reset", NoPath, X)
    /\ since_reset' = <<0>>
    /\ UNCHANGED <<exts, clock_ticks>>

Next ==
    \/ \E path \in DOMAIN Sims[circuit].c.exts : Ext(path)
    \/ \E path \in Sims[circuit].c.terminals,
           value \in Values(Sims[circuit].c.width) : Poke(path, value)
    \/ \E path \in Sims[circuit].c.terminals,
           value \in Values(Sims[circuit].c.width) : Set(path, value)
    \/ Clock
    \/ Reset

Spec == Init /\ [][Next]_vars

-----------------------------------------------------------------------------
(* Properties of the simulator.                                            *)

\* the circuit of the running simulator
Circ == Sims[circuit].c

NetOf(path) == Sims[circuit].nid[path]

Peek(path) == net_values[NetOf(path)]

\* the value the terminal had when the last call was made
PeekBefore(path) == pre[NetOf(path)]

Eval(e) == eval(e, net_values, Sims[circuit].nid, Circ.width)

Evaluated(target) == \E i \in 1..Len(trace) :
                        trace[i].ev = "eval" /\ trace[i].path = target

WireOf(target) == Sims[circuit].wires[target]

IsDriver(path) == Sims[circuit].nets[NetOf(path)].driver = path

IsRegPath(path) == path \in Circ.regs \/ parent(path) \in Circ.regs

\* C1: for every register r and value v, poke(r.set(), v) immediately
\* followed by clock() leaves peek(r) == v.
C1_PokeSetThenClock ==
    [][\A r \in Circ.regs :
          (lastOp = Op("poke", set(r), lastOp.value) /\ lastOp'.op = "clock")
              => net_values'[NetOf(r)] = lastOp.value]_vars

\* C2: clock() latches all registers at once: after clock() every register
\* holds the value its .set had immediately before the call, also when the
\* .set of one register is wired by a direct reference to another register.
C2_ClockLatchesAllAtOnce ==
    lastOp.op = "clock" => \A r \in Circ.regs : Peek(r) = PeekBefore(set(r))

\* C3: poke(p, v) on a non-register terminal p re-evaluates every wire whose
\* expression reads a terminal of p's net, not only the wires that name p.
C3_PokeReevaluatesReadersOfNet ==
    (lastOp.op = "poke" /\ ~IsRegPath(lastOp.path)) =>
        \A t \in DOMAIN Sims[circuit].wires :
            (\E q \in paths(WireOf(t).expr) : NetOf(q) = NetOf(lastOp.path))
                => Evaluated(t)

\* the terminals a change of p reaches along Connect wires: p's net, and the
\* target of every Connect wire that reads a terminal already reached
RECURSIVE Reached(_)
Reached(R) ==
    LET more == {t \in DOMAIN Sims[circuit].wires :
                    /\ WireOf(t).typ = Connect
                    /\ \E q \in paths(WireOf(t).expr), x \in R : NetOf(q) = NetOf(x)}
    IN  IF more \subseteq R THEN R ELSE Reached(R \cup more)

\* the Connect wires whose expression depends, directly or not, on p
DependsOn(p) ==
    {t \in DOMAIN Sims[circuit].wires :
        /\ WireOf(t).typ = Connect
        /\ \E q \in paths(WireOf(t).expr), x \in Reached({p}) : NetOf(q) = NetOf(x)}

Settled(t) == Peek(target_terminal(t, WireOf(t).typ)) = Eval(WireOf(t).expr)

C5_ConstantsApplied ==
    lastOp.op = "new" =>
        \A t \in DOMAIN Sims[circuit].wires :
            is_constant(WireOf(t).expr) =>
                /\ Settled(t)
                /\ \A u \in DOMAIN Sims[circuit].wires :
                      target_terminal(t, WireOf(t).typ) \in paths(WireOf(u).expr)
                          => Settled(u)

\* a new simulator whose constant k := 1 has reached out := mux(k, 1, in)
C5_Witness ==
    /\ lastOp.op = "new"
    /\ circuit = "Consts"
    /\ Peek(T("k")) = 1
    /\ Peek(set(T("r"))) = 1
    /\ Peek(T("out")) = 1

\* C8: a poke on a register path r is deferred: no wire that reads r is
\* evaluated and peek(r) does not yet return the poked value.
C8_RegisterPokeDeferred ==
    (lastOp.op = "poke" /\ lastOp.path \in Circ.regs) =>
        /\ \A t \in DOMAIN Sims[circuit].wires :
              lastOp.path \in paths(WireOf(t).expr) => ~Evaluated(t)
        /\ Peek(lastOp.path) = PeekBefore(lastOp.path)

\* C9: poke(p, v) where p is a register path or the child of one changes only
\* the value of p's net: no wire is evaluated, no external is called back and
\* every other net keeps its value.
C9_RegisterPokeOnlyWritesNet ==
    (lastOp.op = "poke" /\ IsRegPath(lastOp.path)) =>
        /\ trace = <<>>
        /\ Peek(lastOp.path) = lastOp.value
        /\ \A id \in DOMAIN net_values :
              id # NetOf(lastOp.path) => net_values[id] = pre[id]

\* a register that a wire reads was poked with a new value
C9_Witness ==
    /\ lastOp.op = "poke"
    /\ lastOp.path \in Circ.regs
    /\ lastOp.value # PeekBefore(lastOp.path)
    /\ \E t \in DOMAIN Sims[circuit].wires : lastOp.path \in paths(WireOf(t).expr)

\* C10: after reset() every register peeks to its reset value, reset() of
\* every external has been called, and every wire that reads a register has
\* been evaluated against the reset values.
C10_ResetRestoresRegisters ==
    lastOp.op = "reset" =>
        /\ \A r \in Circ.regs : Peek(r) = Circ.reset[r]
        /\ \A e \in exts : \E i \in 1..Len(trace) :
              trace[i].ev = "ext_reset" /\ trace[i].path = e
        /\ \A t \in DOMAIN Sims[circuit].wires :
              (paths(WireOf(t).expr) \cap Circ.regs # {}) =>
                  Evaluated(t) /\ Settled(t)

\* a reset with an external attached that changed a register a wire reads
C10_Witness ==
    /\ lastOp.op = "reset"
    /\ exts # {}
    /\ \E r \in Circ.regs :
          /\ PeekBefore(r) # Circ.reset[r]
          /\ \E t \in DOMAIN Sims[circuit].wires : r \in paths(WireOf(t).expr)

\* C17: set(p, v) writes v into p's net and always runs broadcast_update(p),
\* also when p is a register path: right after set(p, v), before any
\* clock(), p peeks to v and every wire that reads p has been evaluated and
\* agrees with the net values.
C17_SetAlwaysBroadcasts ==
    lastOp.op = "set" =>
        /\ Peek(lastOp.path) = lastOp.value
        /\ \A t \in DOMAIN Sims[circuit].wires :
              lastOp.path \in paths(WireOf(t).expr) => Evaluated(t) /\ Settled(t)

\* a register that a wire reads was set to a value it did not have
C17_Witness ==
    /\ lastOp.op = "set"
    /\ lastOp.path \in Circ.regs
    /\ lastOp.value # PeekBefore(lastOp.path)
    /\ \E t \in DOMAIN Sims[circuit].wires :
          /\ lastOp.path \in paths(WireOf(t).expr)
          /\ Evaluated(t)

-----------------------------------------------------------------------------
(* The counter of the seed tests, followed past the point where it wraps.  *)

\* the values poked into the counter between its runs
CounterPokes == {X, 0, 15}

InitCounter == New({"Counter4"})

NextCounter ==
    \/ Reset
    \/ ClockUpTo(MaxCount)
    \/ \E path \in Sims[circuit].c.terminals, value \in CounterPokes :
          Poke(path, value)

SpecCounter == InitCounter /\ [][NextCounter]_vars

\* C11: counter circuit (reg c: Word<4> reset 0; c <= c + 1; out := c): after
\* reset() peek(top.out) is 0, and after k further clock() calls with no poke
\* in between peek(top.out) is k mod 16.
C11_CounterCounts ==
    since_reset # NoClocks => Peek(T("out")) = since_reset[1] % 16

\* the counter has wrapped: 16 clock()s after a reset() it reads 0 again
C11_Witness ==
    /\ circuit = "Counter4"
    /\ since_reset = <<16>>
    /\ lastOp.op = "clock"
    /\ Peek(T("out")) = 0

-----------------------------------------------------------------------------
(* External instances: the order of the callbacks and of their answers.    *)

\* the circuits without registers whose external answers an update
InitExt == New({"EchoIn", "Twice"})

NextExt ==
    \/ \E path \in DOMAIN Sims[circuit].c.exts : Ext(path)
    \/ \E path \in Sims[circuit].c.terminals,
           value \in Values(Sims[circuit].c.width) : Poke(path, value)
    \/ \E path \in Sims[circuit].c.terminals,
           value \in Values(Sims[circuit].c.width) : Set(path, value)

SpecExt == InitExt /\ [][NextExt]_vars

IsUpdate(j) == trace[j].ev = "update"

\* the events of trace from the update at j to the next update, both excluded
AfterUpdate(j) ==
    LET later == {k \in (j + 1)..Len(trace) : IsUpdate(k)}
        end == IF later = {} THEN Len(trace) + 1
               ELSE CHOOSE k \in later : \A l \in later : k <= l
    IN  SubSeq(trace, j + 1, end - 1)

\* the events of trace from the update before j (or the start) to j, excluded
BeforeUpdate(j) ==
    LET earlier == {k \in 1..(j - 1) : IsUpdate(k)}
        start == IF earlier = {} THEN 0
                 ELSE CHOOSE k \in earlier : \A l \in earlier : l <= k
    IN  SubSeq(trace, start + 1, j - 1)

\* the wires that name the terminal, in ascending order of target
ReadersOf(terminal) ==
    SelectSeq(Sims[circuit].targets,
              LAMBDA t : terminal \in paths(WireOf(t).expr))

\* the evaluations that poking the entries of an answer one after the other,
\* each propagated before the next, makes of the wires that read the ports
RECURSIVE ExpectedEvals(_, _)
ExpectedEvals(ext_path, updates) ==
    IF updates = <<>> THEN <<>>
    ELSE LET port == join(ext_path, Head(updates)[1])
             readers == ReadersOf(port)
             nv == [net_values EXCEPT ![NetOf(port)] = Head(updates)[2]]
         IN  [i \in 1..Len(readers) |->
                 Event("eval", readers[i],
                       eval(WireOf(readers[i]).expr, nv, Sims[circuit].nid,
                            Circ.width))]
             \o ExpectedEvals(ext_path, Tail(updates))

\* C12: the (port, value) pairs an external's update returns are poked into
\* {ext_path}.{port} in list order, each poke propagated before the next is
\* applied: the readers of the ports are evaluated once per entry, in list
\* order, and the value left on a port is that of its last entry.
C12_UpdatesAppliedInListOrder ==
    \A j \in 1..Len(trace) :
        IsUpdate(j) =>
            LET ext_path == parent(trace[j].path)
                updates == ExtUpdate(Circ.exts[ext_path].kind,
                                     port_name(trace[j].path), trace[j].value)
                ports == {join(ext_path, o) : o \in Circ.exts[ext_path].outgoing}
                seen == SelectSeq(AfterUpdate(j),
                                  LAMBDA e : /\ e.ev = "eval"
                                             /\ paths(WireOf(e.path).expr) \cap ports # {})
            IN  /\ seen = ExpectedEvals(ext_path, updates)
                /\ Len(AfterUpdate(j)) = Len(trace) - j =>
                      \A i \in 1..Len(updates) :
                          (\A k \in (i + 1)..Len(updates) : updates[k][1] # updates[i][1])
                              => Peek(join(ext_path, updates[i][1])) = updates[i][2]

\* the external of Twice answered update("i", 1) with [("o", 0), ("o", 1)]:
\* out was evaluated to 0 and then to 1, and o is left at 1
C12_Witness ==
    /\ circuit = "Twice"
    /\ lastOp = Op("poke", T("in"), 1)
    /\ \E j \in 1..Len(trace) : trace[j] = Event("update", <<"top", "ext", "i">>, 1)
    /\ SelectSeq(trace, LAMBDA e : e.ev = "eval" /\ e.path = T("out"))
         = <<Event("eval", T("out"), 0), Event("eval", T("out"), 1)>>
    /\ Peek(<<"top", "ext", "o">>) = 1

\* the wires broadcast_update(p) evaluates, directly or in the propagation of
\* one of them: those that name p, and those that name the target of such a
\* wire when that target is not a register's
RECURSIVE Propagated(_)
Propagated(R) ==
    LET more == {t \in DOMAIN Sims[circuit].wires :
                    \E q \in paths(WireOf(t).expr) :
                        \/ q \in R
                        \/ \E u \in DOMAIN Sims[circuit].wires :
                              /\ u \in R
                              /\ q = target_terminal(u, WireOf(u).typ)
                              /\ ~IsRegPath(q)}
    IN  IF more \subseteq R THEN R ELSE Propagated(R \cup more)

\* C13: within broadcast_update(path) the external's update for path is
\* called only after every wire that depends on path has been evaluated and
\* the propagation from it has completed.
C13_UpdateAfterWirePropagation ==
    \A j \in 1..Len(trace) :
        IsUpdate(j) =>
            \A t \in Propagated({trace[j].path}) \ {trace[j].path} :
                \E i \in 1..Len(BeforeUpdate(j)) :
                    /\ BeforeUpdate(j)[i].ev = "eval"
                    /\ BeforeUpdate(j)[i].path = t

\* the external of Twice was called back after mon and then q, which read its
\* incoming port directly and through mon, were evaluated
C13_Witness ==
    /\ circuit = "Twice"
    /\ lastOp.op = "poke"
    /\ lastOp.path = T("in")
    /\ \E j \in 1..Len(trace) :
          /\ IsUpdate(j)
          /\ trace[j].path = <<"top", "ext", "i">>
          /\ Propagated({trace[j].path}) = {<<"top", "ext", "i">>, T("mon"), T("q")}
          /\ \E i \in 1..(j - 1) : trace[i].ev = "eval" /\ trace[i].path = T("q")

\* C14: external echo (ext.i := in; out := ext.o; update("i", v) returns
\* [("o", v)]): after poke(top.in, v) the external has received
\* update("i", v) and peek(top.out) == v.
C14_EchoReturnsPokedValue ==
    (/\ circuit = "EchoIn"
     /\ T("ext") \in exts
     /\ lastOp.op = "poke"
     /\ lastOp.path = T("in")) =>
        /\ \E j \in 1..Len(trace) :
              trace[j] = Event("update", <<"top", "ext", "i">>, lastOp.value)
        /\ Peek(T("out")) = lastOp.value

\* the echo returned a value that out did not have before
C14_Witness ==
    /\ circuit = "EchoIn"
    /\ T("ext") \in exts
    /\ lastOp = Op("poke", T("in"), 3)
    /\ PeekBefore(T("out")) # 3
    /\ Peek(T("out")) = 3

\* the calls of broadcast_update(path) entered before the event at j of trace
\* and not returned from by then
InBroadcastOf(j, path) ==
    Cardinality({i \in 1..(j - 1) : trace[i] = Event("broadcast", path, X)})
        > Cardinality({i \in 1..(j - 1) : trace[i] = Event("done", path, X)})

\* the ports of the attached externals, by direction
AttachedPorts(direction) ==
    UNION {{join(ext_path, port) : port \in Circ.exts[ext_path][direction]} :
              ext_path \in exts}

\* C29: ext.update(port, v) is invoked only from broadcast_update of a path
\* whose parent is the path of an attached external and whose last segment
\* is one of its incoming ports; pokes of the external's outgoing ports
\* (those that apply an update's answer too) and of any other path never
\* invoke update.
C29_UpdateOnlyForIncomingPort ==
    \A j \in 1..Len(trace) :
        IsUpdate(j) =>
            /\ parent(trace[j].path) \in exts
            /\ port_name(trace[j].path) \in Circ.exts[parent(trace[j].path)].incoming
            /\ trace[j].path \notin AttachedPorts("outgoing")
            /\ InBroadcastOf(j, trace[j].path)

\* a poke of in reached the incoming port of the attached external of Twice,
\* whose answer was poked into its outgoing port twice: update was called
\* once, for the incoming port
C29_Witness ==
    /\ circuit = "Twice"
    /\ T("ext") \in exts
    /\ lastOp.op = "poke"
    /\ lastOp.path = T("in")
    /\ Cardinality({j \in 1..Len(trace) : IsUpdate(j)}) = 1
    /\ Cardinality({j \in 1..Len(trace) :
                       trace[j] = Event("broadcast", <<"top", "ext", "o">>, X)}) = 2

-----------------------------------------------------------------------------
(* A circuit whose wires form a combinational cycle.                       *)

InitLoop == New({"CombLoop"})

NextLoop ==
    \/ \E path \in Sims[circuit].c.terminals,
           value \in Values(Sims[circuit].c.width) : Poke(path, value)
    \/ \E path \in Sims[circuit].c.terminals,
           value \in Values(Sims[circuit].c.width) : Set(path, value)
    \/ Clock
    \/ Reset

SpecLoop == InitLoop /\ [][NextLoop]_vars

\* C15: when the wires form a combinational cycle a poke into the cycle does
\* not diverge: the propagation is cut off (and CombinationalLoop(path) is
\* reported), so every call returns.
C15_PokeIntoCycleReturns == ~overflow

-----------------------------------------------------------------------------
(* Determinism: the order of the evaluations and the outcome of a call.    *)

\* a fan-out whose transient values depend on the order of evaluation, and a
\* circuit with a register and an external
InitOrder == New({"Diamond", "Echo"})

SpecOrder == InitOrder /\ [][Next]_vars

\* how many calls of broadcast_update are in progress after the i-th event
Level(i) ==
    Cardinality({k \in 1..i : trace[k].ev = "broadcast"})
        - Cardinality({k \in 1..i : trace[k].ev = "done"})

\* the targets of the wires evaluated by the loop of the broadcast_update
\* entered at the i-th event (not by those it calls), in the order of the
\* evaluations
DirectEvals(i) ==
    LET ends == {k \in (i + 1)..Len(trace) :
                    trace[k].ev = "done" /\ Level(k) = Level(i) - 1}
        end == IF ends = {} THEN Len(trace) + 1
               ELSE CHOOSE k \in ends : \A l \in ends : k <= l
        own == SelectSeq([m \in 1..Len(trace) |-> m],
                         LAMBDA m : /\ i < m
                                    /\ m < end
                                    /\ trace[m].ev = "eval"
                                    /\ Level(m) = Level(i))
    IN  [n \in 1..Len(own) |-> trace[own[n]].path]

\* the constant wires Sim::new and Sim::ext evaluate, in the order of the
\* evaluations
ConstantEvals ==
    LET own == SelectSeq([m \in 1..Len(trace) |-> m],
                         LAMBDA m : trace[m].ev = "eval" /\ Level(m) = 0)
    IN  [n \in 1..Len(own) |-> trace[own[n]].path]

Ascending(seq) == \A i, j \in 1..Len(seq) : i < j => PathLess(seq[i], seq[j])

Range(seq) == {seq[i] : i \in 1..Len(seq)}

\* every broadcast_update evaluates the wires that name its terminal, each
\* once, in ascending order of target path
EvaluationsInTargetOrder ==
    /\ \A i \in 1..Len(trace) :
          trace[i].ev = "broadcast" =>
              /\ Ascending(DirectEvals(i))
              /\ Range(DirectEvals(i)) =
                    {t \in DOMAIN Sims[circuit].wires :
                        trace[i].path \in paths(WireOf(t).expr)}
    /\ lastOp.op \in {"new", "ext"} =>
          /\ Ascending(ConstantEvals)
          /\ Range(ConstantEvals) =
                {t \in DOMAIN Sims[circuit].wires : is_constant(WireOf(t).expr)}

\* what the call lastOp' does to the simulator of the current state
Outcome ==
    CASE lastOp'.op = "poke" ->
            poke(Sim, Running, lastOp'.path, lastOp'.value, MaxDepth)
      [] lastOp'.op = "set" ->
            sim_set(Sim, Running, lastOp'.path, lastOp'.value, MaxDepth)
      [] lastOp'.op = "clock" -> clock(Sim, Running, MaxDepth)
      [] lastOp'.op = "reset" -> reset(Sim, Running, MaxDepth)
      [] lastOp'.op = "ext" ->
            broadcast_update_constants(WithExts(Sims[circuit], exts'), Running,
                                       MaxDepth)

\* the net values and the events (wire evaluations and external callbacks,
\* in order) after a call are those the call makes of the state before it
OutcomeDetermined ==
    /\ net_values' = Outcome.nv
    /\ trace' = Outcome.tr

-----------------------------------------------------------------------------
(* The adder of the seed tests over Word<8>.                               *)

\* the values poked into a and b: X, small words, and words whose sums wrap
AdderPokes == {X, 0, 1, 3, 5, 127, 128, 255}

InitAdder == New({"Adder8"})

NextAdder ==
    \E path \in {T("a"), T("b")}, value \in AdderPokes : Poke(path, value)

SpecAdder == InitAdder /\ [][NextAdder]_vars

\* C19: adder (s := a + b over Word<8>): after any sequence of pokes to
\* top.a and top.b, peek(top.s) is X if top.a or top.b is X, and otherwise
\* (a + b) mod 2^8.
C19_AdderSum ==
    Peek(T("s")) = IF Peek(T("a")) = X \/ Peek(T("b")) = X THEN X
                   ELSE (Peek(T("a")) + Peek(T("b"))) % (2^8)

\* a sum that wrapped: 128 + 255 = 127 mod 2^8, after b was poked
C19_Witness ==
    /\ circuit = "Adder8"
    /\ lastOp = Op("poke", T("b"), 255)
    /\ Peek(T("a")) = 128
    /\ Peek(T("s")) = 127

-----------------------------------------------------------------------------
(* Calls with a path that is not a terminal of the circuit.                *)

\* paths the adder has no terminal for: the module itself, and the .set of a
\* port that is not a register
UnknownPaths == {<<"top">>, set(T("a"))}

InitErr == New({"Adder"})

NextErr ==
    \/ \E path \in Sims[circuit].c.terminals \cup UnknownPaths : PeekAt(path)
    \/ \E path \in Sims[circuit].c.terminals \cup UnknownPaths,
           value \in Values(Sims[circuit].c.width) : Poke(path, value)
    \/ \E path \in Sims[circuit].c.terminals \cup UnknownPaths,
           value \in Values(Sims[circuit].c.width) : Set(path, value)

SpecErr == InitErr /\ [][NextErr]_vars

\* C16: peek, poke or set on a path that is not a terminal of the circuit
\* fails with an error that identifies the path, and leaves every net value
\* unchanged.
C16_UnknownPathErrorNamesPath ==
    (lastOp.op \in {"peek", "poke", "set"} /\ lastOp.path \notin Circ.terminals) =>
        /\ overflow
        /\ trace # <<>>
        /\ trace[Len(trace)].ev = "panic"
        /\ trace[Len(trace)].path = lastOp.path
        /\ net_values = pre

-----------------------------------------------------------------------------
(* Net inference step by step: nets(circuit) with every iteration of the   *)
(* loop of driver_for a step of its own, so that a walk along a cycle of   *)
(* reference wires is a behaviour that never leaves the loop.              *)

\* a chain of direct references: a := in; b := a; out := b + 1
Chain ==
    [name |-> "Chain", width |-> 1,
     terminals |-> {T("in"), T("a"), T("b"), T("out")},
     regs |-> {}, reset |-> [r \in {} |-> X],
     wires |-> <<Wire(T("a"), Reference(T("in")), Connect),
                 Wire(T("b"), Reference(T("a")), Connect),
                 Wire(T("out"), Add(Reference(T("b")), Word(1)), Connect)>>,
     exts |-> NoExts]

\* a cycle of direct references: a := b; b := a; out := a
RefCycle ==
    [name |-> "RefCycle", width |-> 1,
     terminals |-> {T("a"), T("b"), T("out")},
     regs |-> {}, reset |-> [r \in {} |-> X],
     wires |-> <<Wire(T("a"), Reference(T("b")), Connect),
                 Wire(T("b"), Reference(T("a")), Connect),
                 Wire(T("out"), Reference(T("a")), Connect)>>,
     exts |-> NoExts]

\* a register that holds its value by a direct reference to itself through a
\* node: reg r; r <= q; q := r  (r.set -> q -> r: no cycle)
Hold ==
    [name |-> "Hold", width |-> 1,
     terminals |-> {T("r"), set(T("r")), T("q")},
     regs |-> {T("r")}, reset |-> [r \in {T("r")} |-> 0],
     wires |-> <<Wire(T("r"), Reference(T("q")), Latch),
                 Wire(T("q"), Reference(T("r")), Connect)>>,
     exts |-> NoExts]

\* the circuits net inference is run on
NetCircuits == Circuits \cup {Chain, RefCycle, Hold}

NetCircuitNames == {c.name : c \in NetCircuits}

NetCircuit == [n \in NetCircuitNames |-> CHOOSE c \in NetCircuits : c.name = n]

ImmediateDriverFor == [n \in NetCircuitNames |-> immediate_driver_for(NetCircuit[n])]

walk_never_continues(driver, idf) == FALSE

\* driver_for: the condition of its loop
walk_continues(driver, idf) == driver \in DOMAIN idf

\* Net::from
net_from(terminal) == [driver |-> terminal, drivees |-> <<>>]

\* an add that does not leave the driver out
net_add_driver_too(net, terminal) ==
    [net EXCEPT !.drivees =
        Sorted({net.drivees[i] : i \in 1..Len(net.drivees)} \cup {terminal})]

\* Net::add: push, sort, dedup, unless the terminal is the driver
net_add(net, terminal) ==
    IF net.driver # terminal
    THEN [net EXCEPT !.drivees =
            Sorted({net.drivees[i] : i \in 1..Len(net.drivees)} \cup {terminal})]
    ELSE net

NetsState(phase, todo, walking, terminal, driver, steps, drivers, byDriver, result) ==
    [phase |-> phase, todo |-> todo, walking |-> walking, terminal |-> terminal,
     driver |-> driver, steps |-> steps, drivers |-> drivers,
     nets |-> byDriver, result |-> result]

NoNets == [d \in {} |-> net_from(NoPath)]

\* nets(circuit) is called
InitNets ==
    /\ circuit \in NetCircuitNames
    /\ net_values = <<>>
    /\ exts = {}
    /\ clock_ticks = 0
    /\ lastOp = Op("nets", NoPath, X)
    /\ pre = <<>>
    /\ trace = <<>>
    /\ overflow = FALSE
    /\ since_reset = NoClocks
    /\ resolver = Idle
    /\ nw = NetsState("drivers", Sorted(NetCircuit[circuit].terminals), FALSE,
                      NoPath, NoPath, 0, {}, NoNets, <<>>)

NetsFrame == UNCHANGED <<circuit, net_values, exts, clock_ticks, lastOp, pre,
                         trace, overflow, since_reset, resolver>>

\* driver_for(terminal, ..) is called for the next terminal of either loop
NetsBeginWalk ==
    /\ nw.phase \in {"drivers", "fill"}
    /\ ~nw.walking
    /\ nw.todo # <<>>
    /\ nw' = [nw EXCEPT !.walking = TRUE, !.terminal = Head(nw.todo),
                        !.driver = Head(nw.todo), !.steps = 0]
    /\ NetsFrame

\* driver_for: one iteration of its loop
NetsWalkStep ==
    /\ nw.walking
    /\ walk_continues(nw.driver, ImmediateDriverFor[circuit])
    /\ nw' = [nw EXCEPT !.driver = ImmediateDriverFor[circuit][nw.driver],
                        !.steps = IF @ < MaxWalk THEN @ + 1 ELSE @]
    /\ NetsFrame

\* driver_for returns: the driver is recorded (first loop) or the terminal is
\* added to its driver's net (second loop)
NetsEndWalk ==
    /\ nw.walking
    /\ ~walk_continues(nw.driver, ImmediateDriverFor[circuit])
    /\ nw' = [nw EXCEPT
                !.walking = FALSE,
                !.todo = Tail(nw.todo),
                !.drivers = IF nw.phase = "drivers" THEN @ \cup {nw.driver} ELSE @,
                !.nets = IF nw.phase = "fill"
                         THEN [@ EXCEPT ![nw.driver] = net_add(@, nw.terminal)]
                         ELSE @]
    /\ NetsFrame

\* between the loops: an empty net for every driver
NetsMakeNets ==
    /\ nw.phase = "drivers"
    /\ ~nw.walking
    /\ nw.todo = <<>>
    /\ nw' = [nw EXCEPT !.phase = "fill",
                        !.todo = Sorted(NetCircuit[circuit].terminals),
                        !.nets = [d \in nw.drivers |-> net_from(d)]]
    /\ NetsFrame

\* nets returns the nets in ascending order of driver
NetsFinish ==
    /\ nw.phase = "fill"
    /\ ~nw.walking
    /\ nw.todo = <<>>
    /\ nw' = [nw EXCEPT !.phase = "done",
                        !.result = LET order == Sorted(DOMAIN nw.nets)
                                   IN  [id \in 0..(Len(order) - 1) |->
                                           nw.nets[order[id + 1]]]]
    /\ NetsFrame

NextNets ==
    \/ NetsBeginWalk
    \/ NetsWalkStep
    \/ NetsEndWalk
    \/ NetsMakeNets
    \/ NetsFinish

SpecNets == InitNets /\ [][NextNets]_vars

\* the path reached from t by following at most n immediate_driver links
RECURSIVE Follow(_, _, _)
Follow(t, idf, n) ==
    IF n = 0 \/ t \notin DOMAIN idf THEN t ELSE Follow(idf[t], idf, n - 1)

\* C6: net inference partitions the terminals: every terminal belongs to
\* exactly one net, and that net's driver is the path reached by following
\* immediate_driver links from the terminal to a path that has none.
C6_NetsPartitionTerminals ==
    nw.phase = "done" =>
        LET idf == ImmediateDriverFor[circuit]
        IN  \A t \in NetCircuit[circuit].terminals :
                /\ Cardinality({id \in DOMAIN nw.result : contains(nw.result[id], t)}) = 1
                /\ \A id \in DOMAIN nw.result :
                      contains(nw.result[id], t) =>
                          /\ nw.result[id].driver \notin DOMAIN idf
                          /\ nw.result[id].driver =
                                Follow(t, idf, Cardinality(DOMAIN idf))

\* the nets of the chain a := in; b := a are done: in drives a and b
C6_Witness ==
    /\ nw.phase = "done"
    /\ circuit = "Chain"
    /\ \E id \in DOMAIN nw.result :
          /\ nw.result[id].driver = T("in")
          /\ nw.result[id].drivees = <<T("a"), T("b")>>

\* C7: net inference terminates on every circuit: a walk of driver_for never
\* follows more links than there are direct reference wires (on a cycle of
\* references it stops and the cycle is reported).
C7_DriverWalkTerminates ==
    nw.walking => nw.steps <= Cardinality(DOMAIN ImmediateDriverFor[circuit])


\* the nets made so far: those being filled, and those returned
NetsSoFar ==
    {nw.nets[d] : d \in DOMAIN nw.nets}
        \cup {nw.result[id] : id \in DOMAIN nw.result}

\* C36: every Net produced by net inference has a drivee list that is
\* strictly ascending (sorted, no duplicates) and never contains the net's
\* own driver, and net ids are the dense indices 0..n-1, assigned in
\* ascending order of driver path.
C36_NetsSortedAndDense ==
    /\ \A net \in NetsSoFar :
          /\ \A i \in 1..(Len(net.drivees) - 1) :
                PathLess(net.drivees[i], net.drivees[i + 1])
          /\ \A i \in 1..Len(net.drivees) : net.drivees[i] # net.driver
    /\ nw.phase = "done" =>
          /\ DOMAIN nw.result = 0..(Cardinality(nw.drivers) - 1)
          /\ {nw.result[id].driver : id \in DOMAIN nw.result} = nw.drivers
          /\ \A i, j \in DOMAIN nw.result :
                i < j => PathLess(nw.result[i].driver, nw.result[j].driver)

\* the nets of Chain are returned: more than one net, one of them with two
\* drivees, and each driver was offered to its own net
C36_Witness ==
    /\ nw.phase = "done"
    /\ circuit = "Chain"
    /\ Cardinality(DOMAIN nw.result) > 1
    /\ \E id \in DOMAIN nw.result : Len(nw.result[id].drivees) = 2
    /\ \A id \in DOMAIN nw.result :
          nw.result[id].driver \in NetCircuit[circuit].terminals

-----------------------------------------------------------------------------
(* The resolver (bitsy/src/package/resolve.rs): order_items sorts the      *)
(* items of a package by their dependencies and resolve_item resolves them *)
(* one by one against the items resolved so far.                           *)

\* ast::Type
TyWord == [t |-> "Word"]
TyValid(of) == [t |-> "Valid", of |-> of]
TypeRef(r) == [t |-> "TypeRef", r |-> r]

\* ast::Expr (the variants the packages below use)
AstIdent(id) == [e |-> "Ident", id |-> id]
AstWord == [e |-> "Word"]
AstEnum(typ) == [e |-> "Enum", typ |-> typ]
AstStruct(fields) == [e |-> "Struct", fields |-> fields]
AstCall(func, es) == [e |-> "Call", func |-> func, es |-> es]
AstLet(x, type_ascription, e1, b) ==
    [e |-> "Let", x |-> x, type_ascription |-> type_ascription, e1 |-> e1, b |-> b]
AstBinOp(e1, e2) == [e |-> "BinOp", e1 |-> e1, e2 |-> e2]
AstMatch(e1, arms) == [e |-> "Match", e1 |-> e1, arms |-> arms]

\* Option<Type>::None of a Let without type ascription
NoType == [t |-> "None"]

\* Pat
PatAt(ctor, pats) == [p |-> "At", ctor |-> ctor, pats |-> pats]
PatBind(x) == [p |-> "Bind", x |-> x]
PatOtherwise == [p |-> "Otherwise"]

\* Pat::bound_vars: the names a pattern binds in its arm
RECURSIVE bound_vars(_)
bound_vars(pat) ==
    CASE pat.p = "At" -> UNION {bound_vars(pat.pats[i]) : i \in 1..Len(pat.pats)}
      [] pat.p = "Bind" -> {pat.x}
      [] pat.p = "Otherwise" -> {}

\* ast::Decl (the variants the packages below use)
DeclNode(name, typ) == [d |-> "Node", name |-> name, typ |-> typ]
DeclModInst(name, moddef_name) ==
    [d |-> "ModInst", name |-> name, moddef_name |-> moddef_name]
DeclWire(expr) == [d |-> "Wire", expr |-> expr]

\* ast::Item
ModDef(name, decls) == [kind |-> "ModDef", name |-> name, decls |-> decls]
EnumTypeDef(name) == [kind |-> "EnumTypeDef", name |-> name]
StructTypeDef(name, fields) ==
    [kind |-> "StructTypeDef", name |-> name, fields |-> fields]
FnDef(name, args, ret, body) ==
    [kind |-> "FnDef", name |-> name, args |-> args, ret |-> ret, body |-> body]

\* the calls that name no function definition
SPECIALS == {"cat", "mux", "sext", "zext", "trycast", "word", "@Valid", "@Invalid"}

RECURSIVE type_dependencies(_)
type_dependencies(typ) ==
    CASE typ.t = "Word" -> {}
      [] typ.t = "Valid" -> type_dependencies(typ.of)
      [] typ.t = "TypeRef" -> {typ.r}

\* expr_dependencies: a struct literal contributes nothing, whatever its
\* fields hold
RECURSIVE expr_dependencies(_, _)
expr_dependencies(expr, shadowed) ==
    CASE expr.e = "Ident" -> IF expr.id \in shadowed THEN {} ELSE {expr.id}
      [] expr.e = "Word" -> {}
      [] expr.e = "Enum" -> type_dependencies(expr.typ)
      [] expr.e = "Struct" -> {}
      [] expr.e = "Call" ->
            (IF expr.func \notin SPECIALS THEN {expr.func} ELSE {})
            \cup UNION {expr_dependencies(expr.es[i], shadowed) :
                          i \in 1..Len(expr.es)}
      [] expr.e = "Let" ->
            (IF expr.type_ascription # NoType
             THEN type_dependencies(expr.type_ascription) ELSE {})
            \cup expr_dependencies(expr.e1, shadowed)
            \cup expr_dependencies(expr.b, shadowed \cup {expr.x})
      [] expr.e = "BinOp" ->
            expr_dependencies(expr.e1, shadowed)
            \cup expr_dependencies(expr.e2, shadowed)
      [] expr.e = "Match" ->
            expr_dependencies(expr.e1, shadowed)
            \cup UNION {expr_dependencies(expr.arms[i][2],
                                          shadowed \cup bound_vars(expr.arms[i][1])) :
                          i \in 1..Len(expr.arms)}

moddef_component_names(moddef) ==
    {moddef.decls[i].name :
        i \in {j \in 1..Len(moddef.decls) : moddef.decls[j].d # "Wire"}}

decl_dependencies(decl, component_names) ==
    CASE decl.d = "ModInst" -> {decl.moddef_name}
      [] decl.d = "Node" -> type_dependencies(decl.typ)
      [] decl.d = "Wire" -> expr_dependencies(decl.expr, component_names)

moddef_dependencies(moddef) ==
    UNION {decl_dependencies(moddef.decls[i], moddef_component_names(moddef)) :
              i \in 1..Len(moddef.decls)}

structtypedef_dependencies(typedef) ==
    UNION {type_dependencies(typedef.fields[i][2]) : i \in 1..Len(typedef.fields)}

fndef_dependencies(fndef) ==
    type_dependencies(fndef.ret)
    \cup UNION {type_dependencies(fndef.args[i][2]) : i \in 1..Len(fndef.args)}
    \cup expr_dependencies(fndef.body,
                           {fndef.args[i][1] : i \in 1..Len(fndef.args)})

item_dependencies(item) ==
    CASE item.kind = "ModDef" -> moddef_dependencies(item)
      [] item.kind = "EnumTypeDef" -> {}
      [] item.kind = "StructTypeDef" -> structtypedef_dependencies(item)
      [] item.kind = "FnDef" -> fndef_dependencies(item)


\* Context::lookup: whether the context binds the name
lookup(ctx, name) == name \in ctx

\* the resolve_* functions, each to whether it returns (TRUE) or panics at
\* a failed lookup (FALSE)
RECURSIVE resolve_type(_, _)
resolve_type(typ, ctx) ==
    CASE typ.t = "Word" -> TRUE
      [] typ.t = "Valid" -> resolve_type(typ.of, ctx)
      [] typ.t = "TypeRef" -> lookup(ctx, typ.r)

\* resolve_expr: unlike expr_dependencies it descends into the fields of a
\* struct literal
RECURSIVE resolve_expr(_, _, _)
resolve_expr(expr, ctx, fndef_ctx) ==
    CASE expr.e = "Ident" -> TRUE
      [] expr.e = "Word" -> TRUE
      [] expr.e = "Enum" -> resolve_type(expr.typ, ctx)
      [] expr.e = "Struct" ->
            \A i \in 1..Len(expr.fields) :
                resolve_expr(expr.fields[i][2], ctx, fndef_ctx)
      [] expr.e = "Call" ->
            /\ \A i \in 1..Len(expr.es) : resolve_expr(expr.es[i], ctx, fndef_ctx)
            /\ expr.func \in SPECIALS \/ lookup(fndef_ctx, expr.func)
      [] expr.e = "Let" ->
            /\ resolve_expr(expr.e1, ctx, fndef_ctx)
            /\ resolve_expr(expr.b, ctx, fndef_ctx)
            /\ expr.type_ascription # NoType =>
                    resolve_type(expr.type_ascription, ctx)
      [] expr.e = "BinOp" ->
            /\ resolve_expr(expr.e1, ctx, fndef_ctx)
            /\ resolve_expr(expr.e2, ctx, fndef_ctx)
      [] expr.e = "Match" ->
            /\ resolve_expr(expr.e1, ctx, fndef_ctx)
            /\ \A i \in 1..Len(expr.arms) :
                    resolve_expr(expr.arms[i][2], ctx, fndef_ctx)

resolve_decls(decls, ctx, mod_ctx, fndef_ctx) ==
    \A i \in 1..Len(decls) :
        CASE decls[i].d = "ModInst" -> lookup(mod_ctx, decls[i].moddef_name)
          [] decls[i].d = "Node" -> resolve_type(decls[i].typ, ctx)
          [] decls[i].d = "Wire" -> resolve_expr(decls[i].expr, ctx, fndef_ctx)

resolve_moddef(moddef, ctx, mod_ctx, fndef_ctx) ==
    resolve_decls(moddef.decls, ctx, mod_ctx, fndef_ctx)

resolve_struct_typedef(typedef, ctx) ==
    \A i \in 1..Len(typedef.fields) : resolve_type(typedef.fields[i][2], ctx)

resolve_fndef(fndef, ctx, fn_ctx) ==
    /\ \A i \in 1..Len(fndef.args) : resolve_type(fndef.args[i][2], ctx)
    /\ resolve_type(fndef.ret, ctx)
    /\ resolve_expr(fndef.body, ctx, fn_ctx)

is_typedef(item) == item.kind \in {"EnumTypeDef", "StructTypeDef"}
is_moddef(item) == item.kind = "ModDef"
is_fndef(item) == item.kind = "FnDef"

\* resolve_item against the resolved items `items`
resolve_item(item, items) ==
    LET user_types == {it.name : it \in {r \in items : is_typedef(r)}}
        moddefs == {it.name : it \in {r \in items : is_moddef(r)}}
        fndefs == {it.name : it \in {r \in items : is_fndef(r)}}
    IN  CASE item.kind = "ModDef" -> resolve_moddef(item, user_types, moddefs, fndefs)
          [] item.kind = "EnumTypeDef" -> TRUE
          [] item.kind = "StructTypeDef" -> resolve_struct_typedef(item, user_types)
          [] item.kind = "FnDef" -> resolve_fndef(item, user_types, fndefs)

\* the graph of order_items: an edge from every item to each of its
\* dependencies, by position in the package
Declared(package) == {package[i].name : i \in 1..Len(package)}

\* the entry of the map `items` of order_items for a name once both loops are
\* over: the node and the item of the last declaration of that name
NodeOf(package, name) ==
    CHOOSE i \in 1..Len(package) :
        /\ package[i].name = name
        /\ \A j \in 1..Len(package) : package[j].name = name => j <= i

ItemOf(package, name) == package[NodeOf(package, name)]

Edges(package) ==
    UNION {{NodeOf(package, package[i].name)} \X
           {NodeOf(package, d) :
               d \in item_dependencies(package[i]) \cap Declared(package)} :
           i \in 1..Len(package)}

Orders(n) == {f \in [1..n -> 1..n] : \A i, j \in 1..n : f[i] = f[j] => i = j}

Position(order, node) == CHOOSE i \in DOMAIN order : order[i] = node

\* petgraph's toposort: some order of the nodes in which every edge points
\* forward; which one, among several, the crate decides
toposort(package) ==
    {order \in Orders(Len(package)) :
        \A e \in Edges(package) : Position(order, e[1]) < Position(order, e[2])}

reverse(order) == [i \in 1..Len(order) |-> order[Len(order) + 1 - i]]

\* the nodes reached from `from` along at least one edge
RECURSIVE Reach(_, _, _)
Reach(edges, from, seen) ==
    LET next == {e[2] : e \in {d \in edges : d[1] \in from}} \ seen
    IN  IF next = {} THEN seen ELSE Reach(edges, next, seen \cup next)

\* the nodes that lie on a cycle of the graph
OnCycle(package) ==
    {i \in 1..Len(package) : i \in Reach(Edges(package), {i}, {})}


\* Items of the packages resolved here:
\*   enum type E; struct type S {e: E, w: Word}; struct type P {v: Valid<S>}
\*   fn f(a: Word) -> Word { a }; fn g(a: S) -> Word { f(word(a)) }
\*   mod Sub { node m: P }
\*   mod Call { node n: Word; mod sub of Sub; n := g(f(n)) }
\*   mod Lit { node n: S; n := {e = E::A, w = f(1)} }
ItemE == EnumTypeDef("E")
ItemS == StructTypeDef("S", <<<<"e", TypeRef("E")>>, <<"w", TyWord>>>>)
ItemP == StructTypeDef("P", <<<<"v", TyValid(TypeRef("S"))>>>>)
ItemF == FnDef("f", <<<<"a", TyWord>>>>, TyWord, AstIdent("a"))
ItemG == FnDef("g", <<<<"a", TypeRef("S")>>>>, TyWord,
               AstCall("f", <<AstCall("word", <<AstIdent("a")>>)>>))
ItemSub == ModDef("Sub", <<DeclNode("m", TypeRef("P"))>>)
ItemCall == ModDef("Call", <<DeclNode("n", TyWord), DeclModInst("sub", "Sub"),
                             DeclWire(AstCall("g", <<AstCall("f", <<AstIdent("n")>>)>>))>>)
ItemLit == ModDef("Lit", <<DeclNode("n", TypeRef("S")),
                           DeclWire(AstStruct(<<<<"e", AstEnum(TypeRef("E"))>>,
                                                <<"w", AstCall("f", <<AstWord>>)>>>>))>>)

ItemSets == {{ItemE, ItemS, ItemF, ItemLit},
             {ItemE, ItemS, ItemP, ItemSub},
             {ItemS, ItemE, ItemF, ItemG},
             {ItemF, ItemSub, ItemP, ItemS, ItemE}}

\* every order in which a source file can declare the items of a set
Declarations(items) ==
    {package \in [1..Cardinality(items) -> items] :
        \A i, j \in DOMAIN package : package[i] = package[j] => i = j}

Packages == UNION {Declarations(items) : items \in ItemSets}

NoCircuit == "none"
NoItems == {}

NoNode == 0

\* node: the NodeIndex inside the Cycle error that toposort returned
Resolving(phase, package, sorted, items, message) ==
    [phase |-> phase, package |-> package, sorted |-> sorted, items |-> items,
     message |-> message, node |-> NoNode]

\* resolve is called on one of the packages
Unresolved(packages) ==
    /\ circuit = NoCircuit
    /\ net_values = <<>>
    /\ exts = {}
    /\ clock_ticks = 0
    /\ lastOp = Op("resolve", NoPath, X)
    /\ pre = <<>>
    /\ trace = <<>>
    /\ overflow = FALSE
    /\ since_reset = NoClocks
    /\ nw = Idle
    /\ resolver \in {Resolving("order", package, <<>>, NoItems, "") :
                        package \in packages}

InitResolve == Unresolved(Packages)

ResolveFrame == UNCHANGED <<circuit, net_values, exts, clock_ticks, lastOp, pre,
                            trace, overflow, since_reset, nw>>

\* order_items: the items of the package, dependencies first
OrderItems ==
    /\ resolver.phase = "order"
    /\ LET package == resolver.package
           missing == UNION {item_dependencies(package[i]) : i \in 1..Len(package)}
                        \ Declared(package)
       IN  IF missing # {}
           THEN resolver' = [resolver EXCEPT !.phase = "panic", !.message = "not found"]
           ELSE IF toposort(package) = {}
           THEN \E node \in OnCycle(package) :
                    resolver' = [resolver EXCEPT !.phase = "panic",
                                                 !.message = "cycle",
                                                 !.node = node]
           ELSE \E order \in toposort(package) :
                    resolver' = [resolver EXCEPT
                                    !.phase = "resolve",
                                    !.sorted = [i \in 1..Len(package) |->
                                        ItemOf(package,
                                               package[reverse(order)[i]].name)]]
    /\ ResolveFrame

\* one turn of the loop of resolve: resolve_item, then items.insert
ResolveItem ==
    /\ resolver.phase = "resolve"
    /\ resolver.sorted # <<>>
    /\ LET item == Head(resolver.sorted)
       IN  IF resolve_item(item, resolver.items)
           THEN resolver' = [resolver EXCEPT
                                !.sorted = Tail(@),
                                !.items = {it \in @ : it.name # item.name}
                                            \cup {item}]
           ELSE resolver' = [resolver EXCEPT !.phase = "panic",
                                             !.message = "lookup"]
    /\ ResolveFrame

\* the loop of resolve is over: the resolved items are returned
ResolveReturn ==
    /\ resolver.phase = "resolve"
    /\ resolver.sorted = <<>>
    /\ resolver' = [resolver EXCEPT !.phase = "done"]
    /\ ResolveFrame

NextResolve ==
    \/ OrderItems
    \/ ResolveItem
    \/ ResolveReturn

SpecResolve == InitResolve /\ [][NextResolve]_vars

\* order_items emitted the items so that each follows the items that
\* item_dependencies names for it
SortedByItemDependencies ==
    resolver.phase = "resolve" =>
        \A i \in 1..Len(resolver.sorted) :
            item_dependencies(resolver.sorted[i]) \subseteq
                {it.name : it \in resolver.items}
                \cup {resolver.sorted[j].name : j \in 1..(i - 1)}

\* C20: the resolver processes items in dependency order, so that when
\* resolve_item handles an item every type, module and function the item
\* references is already among the resolved items: no lookup of resolve_item
\* fails.
C20_ReferencesResolvedFirst ==
    ~(resolver.phase = "panic" /\ resolver.message = "lookup")


-----------------------------------------------------------------------------
(* Packages the resolver has to reject: items that depend on each other,   *)
(* and two items of one name.                                              *)

\*   struct type A {b: B}; struct type B {a: A}
\*   struct type R {next: Valid<R>}
\*   fn h(a: A) -> Word { 0 }
\*   struct type S {w: Word}, a second declaration of the name S
ItemA == StructTypeDef("A", <<<<"b", TypeRef("B")>>>>)
ItemB == StructTypeDef("B", <<<<"a", TypeRef("A")>>>>)
ItemR == StructTypeDef("R", <<<<"next", TyValid(TypeRef("R"))>>>>)
ItemH == FnDef("h", <<<<"a", TypeRef("A")>>>>, TyWord, AstWord)
ItemS2 == StructTypeDef("S", <<<<"w", TyWord>>>>)

CyclicItemSets == {{ItemA, ItemB}, {ItemA, ItemB, ItemH, ItemE}, {ItemR, ItemE, ItemF}}

DuplicateItemSets == {{ItemS, ItemS2}, {ItemE, ItemS, ItemS2, ItemP}}

IllFormedPackages ==
    UNION {Declarations(items) : items \in CyclicItemSets \cup DuplicateItemSets}

InitIllFormed == Unresolved(IllFormedPackages)

SpecIllFormed == InitIllFormed /\ [][NextResolve]_vars

\* the items of the package that depend on themselves, directly or not
Participants == {resolver.package[i].name : i \in OnCycle(resolver.package)}

\* the items an error of toposort lets its reader identify, taking the node
\* index in it for the item's name
NamedByError ==
    IF resolver.node = NoNode THEN {} ELSE {resolver.package[resolver.node].name}

\* a package with a cycle is never ordered, let alone resolved
CyclicPackageNotResolved ==
    Participants # {} => resolver.phase \in {"order", "panic"}

\* C21: resolving a package whose items depend on each other in a cycle ends
\* with a cycle error that names the items on the cycle.
C21_CycleErrorNamesParticipants ==
    resolver.phase = "panic" /\ resolver.message = "cycle" =>
        Participants \subseteq NamedByError

HasDuplicate(package) ==
    \E i, j \in 1..Len(package) : i # j /\ package[i].name = package[j].name

\* C22: a package that declares two items of one name is rejected: resolve
\* never returns a resolved package for it.
C22_DuplicateNameRejected ==
    ~(HasDuplicate(resolver.package) /\ resolver.phase = "done")


-----------------------------------------------------------------------------
(* The names an expression depends on (expr_dependencies) and the scope of *)
(* the names bound by Let, by the patterns of Match and by the components  *)
(* of a module.                                                            *)

Idents == {"x", "y"}

Leaves == {AstIdent(id) : id \in Idents} \cup {AstWord}

Pats == {PatBind("x"), PatAt("@Valid", <<PatBind("y")>>)}

\* expressions with one construct over leaves
Shallow ==
    Leaves
    \cup {AstLet(x, NoType, e, b) : x \in Idents, e \in Leaves, b \in Leaves}
    \cup {AstLet("x", TypeRef("S"), AstWord, b) : b \in Leaves}
    \cup {AstMatch(e, <<<<pat, b>>, <<PatOtherwise, AstIdent(id)>>>>) :
            e \in Leaves, pat \in Pats, b \in Leaves, id \in Idents}
    \cup {AstStruct(<<<<"w", e>>>>) : e \in Leaves}
    \cup {AstCall("f", <<e>>) : e \in Leaves}
    \cup {AstCall("x", <<e>>) : e \in Leaves}
    \cup {AstBinOp(e1, e2) : e1 \in Leaves, e2 \in Leaves}

\* a Let over them: scopes inside scopes
Nested == {AstLet(x, NoType, e, b) : x \in Idents, e \in Shallow, b \in Shallow}

Shadows == {{}, {"y"}}

\* modules with a component x and a wire driven by an expression
Moddefs ==
    {ModDef("M", <<DeclNode("x", TyWord), DeclWire(e)>>) : e \in Shallow}

DepsOfExpr(expr, shadowed) ==
    [phase |-> "expr", expr |-> expr, shadowed |-> shadowed, result |-> {}]

DepsOfModdef(moddef) ==
    [phase |-> "moddef", expr |-> moddef.decls[2].expr, shadowed |-> {"x"},
     moddef |-> moddef, result |-> {}]

InitDeps ==
    /\ circuit = NoCircuit
    /\ net_values = <<>>
    /\ exts = {}
    /\ clock_ticks = 0
    /\ lastOp = Op("dependencies", NoPath, X)
    /\ pre = <<>>
    /\ trace = <<>>
    /\ overflow = FALSE
    /\ since_reset = NoClocks
    /\ nw = Idle
    /\ resolver \in
          {DepsOfExpr(expr, shadowed) :
              expr \in Shallow \cup Nested, shadowed \in Shadows}
          \cup {DepsOfModdef(moddef) : moddef \in Moddefs}

ExprDependencies ==
    /\ resolver.phase = "expr"
    /\ resolver' = [resolver EXCEPT
                       !.phase = "deps",
                       !.result = expr_dependencies(resolver.expr, resolver.shadowed)]
    /\ ResolveFrame

ModdefDependencies ==
    /\ resolver.phase = "moddef"
    /\ resolver' = [resolver EXCEPT
                       !.phase = "deps",
                       !.result = moddef_dependencies(resolver.moddef)]
    /\ ResolveFrame

NextDeps ==
    \/ ExprDependencies
    \/ ModdefDependencies

SpecDeps == InitDeps /\ [][NextDeps]_vars

\* The names that occur free in an expression, by lexical scope: an
\* identifier counts unless a Let or a Match arm around it, or `bound`, binds
\* it; the callee of a call and the types an expression names always count.
RECURSIVE FreeNames(_, _)
FreeNames(expr, bound) ==
    CASE expr.e = "Ident" -> {expr.id} \ bound
      [] expr.e = "Word" -> {}
      [] expr.e = "Enum" -> type_dependencies(expr.typ)
      [] expr.e = "Struct" ->
            UNION {FreeNames(expr.fields[i][2], bound) : i \in 1..Len(expr.fields)}
      [] expr.e = "Call" ->
            ({expr.func} \ SPECIALS)
            \cup UNION {FreeNames(expr.es[i], bound) : i \in 1..Len(expr.es)}
      [] expr.e = "Let" ->
            (IF expr.type_ascription = NoType THEN {}
             ELSE type_dependencies(expr.type_ascription))
            \cup FreeNames(expr.e1, bound)
            \cup FreeNames(expr.b, bound \cup {expr.x})
      [] expr.e = "BinOp" -> FreeNames(expr.e1, bound) \cup FreeNames(expr.e2, bound)
      [] expr.e = "Match" ->
            FreeNames(expr.e1, bound)
            \cup UNION {FreeNames(expr.arms[i][2],
                                  bound \cup bound_vars(expr.arms[i][1])) :
                          i \in 1..Len(expr.arms)}

RECURSIVE HasStruct(_)
HasStruct(expr) ==
    CASE expr.e = "Struct" -> TRUE
      [] expr.e = "Call" -> \E i \in 1..Len(expr.es) : HasStruct(expr.es[i])
      [] expr.e = "Let" -> HasStruct(expr.e1) \/ HasStruct(expr.b)
      [] expr.e = "BinOp" -> HasStruct(expr.e1) \/ HasStruct(expr.e2)
      [] expr.e = "Match" ->
            HasStruct(expr.e1)
            \/ \E i \in 1..Len(expr.arms) : HasStruct(expr.arms[i][2])
      [] OTHER -> FALSE

\* away from struct literals the scopes are as the claim has them
ScopesWithoutStructLiterals ==
    resolver.phase = "deps" /\ ~HasStruct(resolver.expr) =>
        resolver.result = FreeNames(resolver.expr, resolver.shadowed)

\* C23: expr_dependencies removes shadowed names with lexical scope: the
\* name a Let binds is no dependency in its body but is one in its bound
\* expression, the names of a Match pattern are excluded in that arm only,
\* and the component names of a module are excluded in all its wires.
C23_ShadowedNamesByLexicalScope ==
    resolver.phase = "deps" =>
        resolver.result = FreeNames(resolver.expr, resolver.shadowed)


-----------------------------------------------------------------------------
(* Resolved expressions (bitsy/src/expr.rs): Expr, its type cells, rebase  *)
(* and references_to_nets.                                                 *)

\* an empty OnceCell<Arc<Type>>
Unset == [t |-> "Unset"]

\* Expr (the variants used below); typ is the type cell of the node. The
\* u64 of a word literal is kept as the number of its significant bits (0
\* for the value 0, 64 for the values from 2^63 on), which is all that the
\* shifts of the type checker look at; its width is NoWidth or a number.
ExprReference(typ, path) == [k |-> "Reference", typ |-> typ, path |-> path]
ExprNet(typ, net_id) == [k |-> "Net", typ |-> typ, net_id |-> net_id]
ExprWord(typ, width, value) ==
    [k |-> "Word", typ |-> typ, width |-> width, value |-> value]
ExprCtor(typ, name, es) == [k |-> "Ctor", typ |-> typ, name |-> name, es |-> es]
ExprLet(typ, name, e1, b) ==
    [k |-> "Let", typ |-> typ, name |-> name, e1 |-> e1, b |-> b]
ExprUnOp(typ, op, e1) == [k |-> "UnOp", typ |-> typ, op |-> op, e1 |-> e1]
ExprBinOp(typ, op, e1, e2) ==
    [k |-> "BinOp", typ |-> typ, op |-> op, e1 |-> e1, e2 |-> e2]
ExprIf(typ, cond, e1, e2) ==
    [k |-> "If", typ |-> typ, cond |-> cond, e1 |-> e1, e2 |-> e2]
ExprMatch(typ, e1, arms) == [k |-> "Match", typ |-> typ, e1 |-> e1, arms |-> arms]
ExprMux(typ, cond, e1, e2) ==
    [k |-> "Mux", typ |-> typ, cond |-> cond, e1 |-> e1, e2 |-> e2]
ExprCat(typ, es) == [k |-> "Cat", typ |-> typ, es |-> es]
ExprHole(typ) == [k |-> "Hole", typ |-> typ]

\* the place of an expression whose evaluation panicked
Unwound == [k |-> "panic"]

\* the expressions directly below a node
Children(expr) ==
    CASE expr.k \in {"Ctor", "Cat"} -> {expr.es[i] : i \in 1..Len(expr.es)}
      [] expr.k = "Let" -> {expr.e1, expr.b}
      [] expr.k = "UnOp" -> {expr.e1}
      [] expr.k = "BinOp" -> {expr.e1, expr.e2}
      [] expr.k \in {"If", "Mux"} -> {expr.cond, expr.e1, expr.e2}
      [] expr.k = "Match" ->
            {expr.e1} \cup {expr.arms[i][2] : i \in 1..Len(expr.arms)}
      [] OTHER -> {}

RECURSIVE Panicked(_)
Panicked(expr) == expr = Unwound \/ \E e \in Children(expr) : Panicked(e)

\* a panic below unwinds the whole call
Unwind(expr) == IF Panicked(expr) THEN Unwound ELSE expr

\* Path::join of two paths
JoinPath(p, q) == p \o q

\* String into Path
PathOf(name) == <<name>>

RECURSIVE rebase_rec(_, _, _)
rebase_rec(expr, current_path, shadowed) ==
    CASE expr.k = "Reference" ->
            IF expr.path \notin shadowed
            THEN ExprReference(expr.typ, JoinPath(current_path, expr.path))
            ELSE expr
      [] expr.k = "Net" -> Unwound
      [] expr.k = "Word" -> expr
      [] expr.k = "Ctor" ->
            ExprCtor(expr.typ, expr.name,
                     [i \in 1..Len(expr.es) |->
                         rebase_rec(expr.es[i], current_path, shadowed)])
      [] expr.k = "Let" ->
            ExprLet(expr.typ, expr.name,
                    rebase_rec(expr.e1, current_path, shadowed),
                    rebase_rec(expr.b, current_path,
                               shadowed \cup {PathOf(expr.name)}))
      [] expr.k = "Match" -> Unwound
      [] expr.k = "UnOp" ->
            ExprUnOp(expr.typ, expr.op, rebase_rec(expr.e1, current_path, shadowed))
      [] expr.k = "BinOp" ->
            ExprBinOp(expr.typ, expr.op,
                      rebase_rec(expr.e1, current_path, shadowed),
                      rebase_rec(expr.e2, current_path, shadowed))
      [] expr.k = "If" ->
            ExprIf(expr.typ,
                   rebase_rec(expr.cond, current_path, shadowed),
                   rebase_rec(expr.e1, current_path, shadowed),
                   rebase_rec(expr.e2, current_path, shadowed))
      [] expr.k = "Mux" ->
            ExprMux(expr.typ,
                    rebase_rec(expr.cond, current_path, shadowed),
                    rebase_rec(expr.e1, current_path, shadowed),
                    rebase_rec(expr.e2, current_path, shadowed))
      [] expr.k = "Cat" ->
            ExprCat(expr.typ,
                    [i \in 1..Len(expr.es) |->
                        rebase_rec(expr.es[i], current_path, shadowed)])
      [] expr.k = "Hole" -> expr

rebase(expr, current_path) == Unwind(rebase_rec(expr, current_path, {}))


\* Type::Word(w)
TypeWord(w) == [t |-> "Word", w |-> w]

\* the local paths the expressions refer to: two identifiers and a port of
\* a submodule instance
LocalPaths == {<<"x">>, <<"y">>, <<"sub", "p">>}

\* the paths of the instances whose wires are rebased
Prefixes == {<<"top">>, <<"top", "a">>}

ExprLeaves ==
    {ExprReference(Unset, path) : path \in LocalPaths}
    \cup {ExprWord(TypeWord(8), 8, 1), ExprHole(Unset)}

Binders == {"x", "y"}

ExprLets ==
    {ExprLet(Unset, name, e, b) : name \in Binders, e \in ExprLeaves, b \in ExprLeaves}

ExprMatches ==
    {ExprMatch(Unset, e, <<<<PatBind("x"), b>>>>) : e \in ExprLeaves, b \in ExprLeaves}

ExprOthers ==
    {ExprBinOp(typ, "Add", e1, e2) :
        typ \in {Unset, TypeWord(8)}, e1 \in ExprLeaves, e2 \in ExprLeaves}
    \cup {ExprCtor(Unset, "Valid", <<e>>) : e \in ExprLeaves}
    \cup {ExprUnOp(Unset, "Not", e) : e \in ExprLeaves}
    \cup {ExprMux(Unset, ExprWord(Unset, 1, 1), e, ExprReference(Unset, <<"x">>)) :
            e \in ExprLeaves}
    \cup {ExprIf(Unset, ExprReference(Unset, <<"y">>), e, ExprHole(Unset)) :
            e \in ExprLeaves}
    \cup {ExprCat(Unset, <<e, ExprReference(Unset, <<"sub", "p">>)>>) :
            e \in ExprLeaves}

ExprNested ==
    {ExprLet(Unset, name, e, b) :
        name \in Binders, e \in ExprLets \cup ExprMatches, b \in ExprLets \cup ExprOthers}

Exprs == ExprLeaves \cup ExprLets \cup ExprMatches \cup ExprOthers \cup ExprNested

Rebasing(expr, current_path) ==
    [phase |-> "rebase", expr |-> expr, current_path |-> current_path,
     result |-> Unwound]

InitRebase ==
    /\ circuit = NoCircuit
    /\ net_values = <<>>
    /\ exts = {}
    /\ clock_ticks = 0
    /\ lastOp = Op("rebase", NoPath, X)
    /\ pre = <<>>
    /\ trace = <<>>
    /\ overflow = FALSE
    /\ since_reset = NoClocks
    /\ nw = Idle
    /\ resolver \in {Rebasing(expr, current_path) :
                        expr \in Exprs, current_path \in Prefixes}

Rebase ==
    /\ resolver.phase = "rebase"
    /\ resolver' = [resolver EXCEPT
                       !.phase = "rebased",
                       !.result = rebase(resolver.expr, resolver.current_path)]
    /\ ResolveFrame

SpecRebase == InitRebase /\ [][Rebase]_vars

\* The expression with every Reference that no enclosing Let (or pattern of
\* an enclosing Match arm) binds prefixed, and nothing else changed.
RECURSIVE Prefixed(_, _, _)
Prefixed(expr, prefix, bound) ==
    CASE expr.k = "Reference" ->
            IF expr.path \in bound THEN expr
            ELSE [expr EXCEPT !.path = prefix \o @]
      [] expr.k \in {"Ctor", "Cat"} ->
            [expr EXCEPT !.es = [i \in DOMAIN @ |-> Prefixed(@[i], prefix, bound)]]
      [] expr.k = "Let" ->
            [expr EXCEPT !.e1 = Prefixed(@, prefix, bound),
                         !.b = Prefixed(@, prefix, bound \cup {<<expr.name>>})]
      [] expr.k = "UnOp" -> [expr EXCEPT !.e1 = Prefixed(@, prefix, bound)]
      [] expr.k = "BinOp" ->
            [expr EXCEPT !.e1 = Prefixed(@, prefix, bound),
                         !.e2 = Prefixed(@, prefix, bound)]
      [] expr.k \in {"If", "Mux"} ->
            [expr EXCEPT !.cond = Prefixed(@, prefix, bound),
                         !.e1 = Prefixed(@, prefix, bound),
                         !.e2 = Prefixed(@, prefix, bound)]
      [] expr.k = "Match" ->
            [expr EXCEPT
                !.e1 = Prefixed(@, prefix, bound),
                !.arms = [i \in DOMAIN @ |->
                            <<@[i][1],
                              Prefixed(@[i][2], prefix,
                                       bound \cup {<<v>> : v \in bound_vars(@[i][1])})>>]]
      [] OTHER -> expr

RECURSIVE HasMatch(_)
HasMatch(expr) == expr.k = "Match" \/ \E e \in Children(expr) : HasMatch(e)

\* away from match expressions rebase does what the claim says
RebaseWithoutMatch ==
    resolver.phase = "rebased" /\ ~HasMatch(resolver.expr) =>
        resolver.result = Prefixed(resolver.expr, resolver.current_path, {})

\* C24: rebase(prefix) replaces every Reference(p) that no enclosing Let
\* binds with Reference(prefix.p), leaves the Let-bound references as they
\* are, and leaves every other part of the expression unchanged.
C24_RebasePrefixesFreeReferences ==
    resolver.phase = "rebased" =>
        resolver.result = Prefixed(resolver.expr, resolver.current_path, {})


-----------------------------------------------------------------------------
(* references_to_nets: the expressions of an elaborated circuit, rewritten *)
(* for simulation.                                                         *)

\* a circuit with the terminals the expressions refer to; y is wired
\* straight to x and so shares its net
Scope ==
    [name |-> "Scope", width |-> 1,
     terminals |-> {T("x"), T("y"), <<"top", "sub", "p">>},
     regs |-> {}, reset |-> [r \in {} |-> X],
     wires |-> <<Wire(T("y"), Reference(T("x")), Connect),
                 Wire(<<"top", "sub", "p">>, Add(Reference(T("x")), Word(0)), Connect)>>,
     exts |-> NoExts]

\* the same terminals, each on a net of its own
Apart ==
    [name |-> "Apart", width |-> 1,
     terminals |-> {T("x"), T("y"), <<"top", "sub", "p">>},
     regs |-> {}, reset |-> [r \in {} |-> X],
     wires |-> <<Wire(<<"top", "sub", "p">>, Add(Reference(T("x")), Reference(T("y"))),
                      Connect)>>,
     exts |-> NoExts]

ScopeCircuits == {Scope, Apart}

RECURSIVE references_to_nets_rec(_, _, _)
references_to_nets_rec(expr, net_id_by_path, shadowed) ==
    CASE expr.k = "Reference" ->
            IF expr.path \in shadowed THEN expr
            ELSE IF expr.path \notin DOMAIN net_id_by_path THEN Unwound
            ELSE ExprNet(expr.typ, net_id_by_path[expr.path])
      [] expr.k = "Net" -> Unwound
      [] expr.k = "Word" -> expr
      [] expr.k = "Ctor" ->
            ExprCtor(expr.typ, expr.name,
                     [i \in 1..Len(expr.es) |->
                         references_to_nets_rec(expr.es[i], net_id_by_path, shadowed)])
      [] expr.k = "Let" ->
            ExprLet(expr.typ, expr.name,
                    references_to_nets_rec(expr.e1, net_id_by_path, shadowed),
                    references_to_nets_rec(expr.b, net_id_by_path,
                                           shadowed \cup {PathOf(expr.name)}))
      [] expr.k = "UnOp" ->
            ExprUnOp(expr.typ, expr.op,
                     references_to_nets_rec(expr.e1, net_id_by_path, shadowed))
      [] expr.k = "BinOp" ->
            ExprBinOp(expr.typ, expr.op,
                      references_to_nets_rec(expr.e1, net_id_by_path, shadowed),
                      references_to_nets_rec(expr.e2, net_id_by_path, shadowed))
      [] expr.k = "If" ->
            ExprIf(expr.typ,
                   references_to_nets_rec(expr.cond, net_id_by_path, shadowed),
                   references_to_nets_rec(expr.e1, net_id_by_path, shadowed),
                   references_to_nets_rec(expr.e2, net_id_by_path, shadowed))
      [] expr.k = "Match" -> Unwound
      [] expr.k = "Mux" ->
            ExprMux(expr.typ,
                    references_to_nets_rec(expr.cond, net_id_by_path, shadowed),
                    references_to_nets_rec(expr.e1, net_id_by_path, shadowed),
                    references_to_nets_rec(expr.e2, net_id_by_path, shadowed))
      [] expr.k = "Cat" ->
            ExprCat(expr.typ,
                    [i \in 1..Len(expr.es) |->
                        references_to_nets_rec(expr.es[i], net_id_by_path, shadowed)])
      [] expr.k = "Hole" -> expr

references_to_nets(expr, net_id_by_path) ==
    Unwind(references_to_nets_rec(expr, net_id_by_path, {}))

\* the way back: every Net becomes the Reference of the path drivers[net_id]
RECURSIVE nets_to_references(_, _)
nets_to_references(expr, drivers) ==
    CASE expr = Unwound -> Unwound
      [] expr.k = "Net" -> ExprReference(expr.typ, drivers[expr.net_id])
      [] expr.k \in {"Ctor", "Cat"} ->
            [expr EXCEPT !.es = [i \in DOMAIN @ |-> nets_to_references(@[i], drivers)]]
      [] expr.k = "Let" ->
            [expr EXCEPT !.e1 = nets_to_references(@, drivers),
                         !.b = nets_to_references(@, drivers)]
      [] expr.k = "UnOp" -> [expr EXCEPT !.e1 = nets_to_references(@, drivers)]
      [] expr.k = "BinOp" ->
            [expr EXCEPT !.e1 = nets_to_references(@, drivers),
                         !.e2 = nets_to_references(@, drivers)]
      [] expr.k \in {"If", "Mux"} ->
            [expr EXCEPT !.cond = nets_to_references(@, drivers),
                         !.e1 = nets_to_references(@, drivers),
                         !.e2 = nets_to_references(@, drivers)]
      [] OTHER -> expr

\* Expr::paths: the paths of the References of an expression
RECURSIVE reference_paths(_)
reference_paths(expr) ==
    (IF expr.k = "Reference" THEN {expr.path} ELSE {})
    \cup UNION {reference_paths(e) : e \in Children(expr)}

\* the wire expressions of the elaborated circuit: local expressions
\* rebased to the module instance top
Elaborated == {Prefixed(expr, <<"top">>, {}) : expr \in Exprs}

ToNets(c, expr) ==
    [phase |-> "references", c |-> c, expr |-> expr, nets |-> Unwound,
     back |-> Unwound]

InitToNets ==
    /\ circuit = NoCircuit
    /\ net_values = <<>>
    /\ exts = {}
    /\ clock_ticks = 0
    /\ lastOp = Op("references_to_nets", NoPath, X)
    /\ pre = <<>>
    /\ trace = <<>>
    /\ overflow = FALSE
    /\ since_reset = NoClocks
    /\ nw = Idle
    /\ resolver \in {ToNets(c, expr) : c \in ScopeCircuits, expr \in Elaborated}

ReferencesToNets ==
    /\ resolver.phase = "references"
    /\ resolver' = [resolver EXCEPT
                       !.phase = "nets",
                       !.nets = references_to_nets(resolver.expr,
                                                   NetIdByPath(resolver.c))]
    /\ ResolveFrame

NetsToReferences ==
    /\ resolver.phase = "nets"
    /\ resolver' = [resolver EXCEPT
                       !.phase = "back",
                       !.back = nets_to_references(
                                   resolver.nets,
                                   [id \in DOMAIN nets(resolver.c) |->
                                       nets(resolver.c)[id].driver])]
    /\ ResolveFrame

NextToNets ==
    \/ ReferencesToNets
    \/ NetsToReferences

SpecToNets == InitToNets /\ [][NextToNets]_vars

\* the driver of the net of a terminal
DriverOf(c, path) == nets(c)[NetIdByPath(c)[path]].driver

\* what does come back: of each terminal referred to, the driver of its net
\* (the names bound by a Let stay as they are)
BackToDrivers ==
    resolver.phase = "back" /\ resolver.back # Unwound =>
        reference_paths(resolver.back) =
            {IF path \in resolver.c.terminals THEN DriverOf(resolver.c, path)
             ELSE path : path \in reference_paths(resolver.expr)}

\* C25: rewriting the References of an expression to Nets by net_id_by_path
\* and each Net back to the path of the net's driver gives the set of paths
\* the expression referred to.
C25_NetsRoundTrip ==
    resolver.phase = "back" =>
        /\ resolver.back # Unwound
        /\ reference_paths(resolver.back) = reference_paths(resolver.expr)


-----------------------------------------------------------------------------
(* Type checking (bitsy/src/expr/typecheck.rs): typecheck against an       *)
(* expected type and typeinfer, both of which fill the type cells.         *)

\* bits of a u64, the type of word values and of widths
U64Bits == 64

\* Option<Width>::None of a literal written without a width
NoWidth == 0 - 1

\* Type::Valid(t)
TypeValid(of) == [t |-> "Valid", of |-> of]

\* a call that panicked
Aborted == [t |-> "panic"]

\* n >> w == 0 for a u64 n of `bits` significant bits: whether n < 2^w, as
\* long as w < 64. A shift by 64 or more overflows: a build with overflow
\* checks panics, a build without shifts by w mod 64.
ShiftsToZero(bits, w, overflow_checks) ==
    IF w < U64Bits THEN IF bits <= w THEN "yes" ELSE "no"
    ELSE IF overflow_checks THEN "panic"
    ELSE IF bits <= w % U64Bits THEN "yes" ELSE "no"

\* OnceCell::set on the type cell of a node: a cell already set keeps its
\* value
SetNever(expr, typ) == expr

SetCell(expr, typ) ==
    IF expr.typ = Unset THEN [expr EXCEPT !.typ = typ] ELSE expr

\* Context::lookup and Context::extend over a function from paths to types
Bound(ctx, path) == path \in DOMAIN ctx

Extend(ctx, path, typ) ==
    [q \in DOMAIN ctx \cup {path} |-> IF q = path THEN typ ELSE ctx[q]]

\* the outcome of typeinfer: the Option<Arc<Type>> returned, r (NoType for
\* None, Aborted for a panic), and the expression with the cells it set, e
Inferred(r, e) == [r |-> r, e |-> e]

RECURSIVE typeinfer(_, _, _)
RECURSIVE typeinfer_cat(_, _, _, _, _)

\* the loop of typeinfer over the parts of a cat: the widths add up, the
\* first part without a word type ends the call with None
typeinfer_cat(es, ctx, overflow_checks, w, done) ==
    IF es = <<>> THEN [r |-> TypeWord(w), es |-> done]
    ELSE LET head == typeinfer(Head(es), ctx, overflow_checks)
         IN  IF head.r.t = "Word"
             THEN typeinfer_cat(Tail(es), ctx, overflow_checks, w + head.r.w,
                                Append(done, head.e))
             ELSE [r |-> IF head.r = Aborted THEN Aborted ELSE NoType,
                   es |-> Append(done, head.e) \o Tail(es)]

typeinfer(expr, ctx, overflow_checks) ==
    LET result ==
            CASE expr.k = "Reference" ->
                    Inferred(IF Bound(ctx, expr.path) THEN ctx[expr.path] ELSE NoType,
                             expr)
              [] expr.k = "Net" -> Inferred(Aborted, expr)
              [] expr.k = "Word" ->
                    IF expr.width = NoWidth THEN Inferred(NoType, expr)
                    ELSE LET zero == ShiftsToZero(expr.value, expr.width, overflow_checks)
                         IN  Inferred(CASE zero = "yes" -> TypeWord(expr.width)
                                        [] zero = "no" -> NoType
                                        [] zero = "panic" -> Aborted,
                                      expr)
              [] expr.k = "Cat" ->
                    LET parts == typeinfer_cat(expr.es, ctx, overflow_checks, 0, <<>>)
                    IN  Inferred(parts.r, [expr EXCEPT !.es = parts.es])
              [] OTHER -> Inferred(NoType, expr)
    IN  IF result.r \notin {NoType, Aborted}
        THEN Inferred(result.r, SetCell(result.e, result.r))
        ELSE result


\* TypeError, with the expression it is about
NotExpectedType(expected, actual, expr) ==
    [err |-> "NotExpectedType", expr |-> expr, expected |-> expected,
     actual |-> actual]
UndefinedReference(expr) == [err |-> "UndefinedReference", expr |-> expr]
Other(expr, message) == [err |-> "Other", expr |-> expr, message |-> message]

\* the outcome of typecheck: the errors of the Result returned (none for
\* Ok, one for Err), whether the call panicked, and the expression with
\* the cells set so far
Checked(errors, panic, e) == [errors |-> errors, panic |-> panic, e |-> e]

Passed(e) == Checked(<<>>, FALSE, e)
Failed(error, e) == Checked(<<error>>, FALSE, e)
IsOk(checked) == checked.errors = <<>> /\ ~checked.panic

BinOpsCompare == {"Eq", "Neq", "Lt"}
BinOpsSameType == {"Add", "Sub", "And", "Or", "Xor"}

\* if n >> w != 0 { Err("Doesn't fit") } else { Ok(()) }
Fits(zero, expr, self) ==
    CASE zero = "no" -> Failed(Other(expr, "Doesn't fit"), self)
      [] zero = "yes" -> Passed(self)
      [] zero = "panic" -> Checked(<<>>, TRUE, self)

RECURSIVE typecheck(_, _, _, _)
RECURSIVE typecheck_each(_, _, _, _, _)

\* e1.typecheck(t1, ctx)?; e2.typecheck(t2, ctx)?; ...; Ok(()): the first
\* error ends the call
typecheck_each(self, fields, types, ctx, overflow_checks) ==
    IF fields = <<>> THEN Passed(self)
    ELSE LET first == typecheck(self[Head(fields)], Head(types), ctx, overflow_checks)
             next == [self EXCEPT ![Head(fields)] = first.e]
         IN  IF IsOk(first)
             THEN typecheck_each(next, Tail(fields), Tail(types), ctx, overflow_checks)
             ELSE Checked(first.errors, first.panic, next)

typecheck(expr, type_expected, ctx, overflow_checks) ==
    LET inferred == typeinfer(expr, ctx, overflow_checks)
        self == inferred.e
        result ==
          CASE self.k = "Reference" -> Failed(UndefinedReference(expr), self)
            [] self.k = "Word" /\ type_expected.t = "Word" ->
                  IF self.width # NoWidth
                  THEN IF self.width = type_expected.w
                       THEN Failed(Other(expr, "Not the expected width"), self)
                       ELSE Fits(ShiftsToZero(self.value, self.width, overflow_checks),
                                 expr, self)
                  ELSE Fits(ShiftsToZero(self.value, type_expected.w, overflow_checks),
                            expr, self)
            [] self.k = "Ctor" ->
                  IF type_expected.t = "Valid"
                  THEN IF Len(self.es) = 1
                       THEN LET arg == typecheck(self.es[1], type_expected.of, ctx,
                                                 overflow_checks)
                            IN  Checked(arg.errors, arg.panic,
                                        [self EXCEPT !.es = <<arg.e>>])
                       ELSE IF Len(self.es) > 1
                       THEN Failed(Other(expr, "Error"), self)
                       ELSE Passed(self)
                  ELSE Failed(Other(expr, "Not a Valid<T>"), self)
            [] self.k = "Let" ->
                  LET bound == typeinfer(self.e1, ctx, overflow_checks)
                  IN  IF bound.r = Aborted
                      THEN Checked(<<>>, TRUE, [self EXCEPT !.e1 = bound.e])
                      ELSE IF bound.r = NoType
                      THEN Failed(Other(expr, "Can infer type in let expression."),
                                  [self EXCEPT !.e1 = bound.e])
                      ELSE LET body == typecheck(self.b, type_expected,
                                                 Extend(ctx, PathOf(self.name), bound.r),
                                                 overflow_checks)
                           IN  Checked(body.errors, body.panic,
                                       [self EXCEPT !.e1 = bound.e, !.b = body.e])
            [] self.k = "Match" ->
                  Failed(Other(expr, "match expressions are not yet implemented"), self)
            [] self.k = "UnOp" ->
                  typecheck_each(self, <<"e1">>, <<type_expected>>, ctx, overflow_checks)
            [] self.k = "BinOp" /\ type_expected = TypeWord(1)
                 /\ self.op \in BinOpsCompare ->
                  LET left == typeinfer(self.e1, ctx, overflow_checks)
                      next == [self EXCEPT !.e1 = left.e]
                  IN  IF left.r = Aborted THEN Checked(<<>>, TRUE, next)
                      ELSE IF left.r = NoType
                      THEN Failed(Other(expr, "Can't infer type."), next)
                      ELSE typecheck_each(next, <<"e2">>, <<left.r>>, ctx,
                                          overflow_checks)
            [] self.k = "BinOp" /\ type_expected.t = "Word"
                 /\ self.op \in BinOpsSameType ->
                  typecheck_each(self, <<"e1", "e2">>,
                                 <<type_expected, type_expected>>, ctx, overflow_checks)
            [] self.k = "BinOp" /\ type_expected.t = "Word" /\ self.op = "AddCarry" ->
                  LET left == typeinfer(self.e1, ctx, overflow_checks)
                      right == typeinfer(self.e2, ctx, overflow_checks)
                      next == [self EXCEPT !.e1 = left.e, !.e2 = right.e]
                  IN  IF left.r = Aborted \/ right.r = Aborted
                      THEN Checked(<<>>, TRUE, next)
                      ELSE IF left.r = NoType \/ right.r = NoType
                      THEN Failed(Other(expr, "Can't infer type."), next)
                      ELSE IF /\ type_expected.w > 0
                              /\ left.r = right.r
                              /\ left.r = TypeWord(type_expected.w - 1)
                      THEN Passed(next)
                      ELSE Failed(Other(expr, "Types don't match"), next)
            [] self.k \in {"If", "Mux"} ->
                  typecheck_each(self, <<"cond", "e1", "e2">>,
                                 <<TypeWord(1), type_expected, type_expected>>,
                                 ctx, overflow_checks)
            [] self.k = "Hole" -> Passed(self)
            [] OTHER -> Failed(Other(expr, "is not the expected type"), self)
    IN  IF inferred.r = Aborted THEN Checked(<<>>, TRUE, self)
        ELSE IF inferred.r # NoType
        THEN IF inferred.r = type_expected THEN Passed(self)
             ELSE Failed(NotExpectedType(type_expected, inferred.r, expr), self)
        ELSE IF IsOk(result) THEN Passed(SetCell(result.e, type_expected))
        ELSE result


-----------------------------------------------------------------------------
(* Word literals against widths: every width a literal can be given and    *)
(* every size of value, in builds with and without overflow checks.        *)

\* the widths from 0 to 64, and one beyond
Widths == 0..(U64Bits + 1)

\* the sizes of a u64: values of 0 to 64 significant bits
Sizes == 0..U64Bits

NoContext == <<>>

Inferring(expr, overflow_checks) ==
    [phase |-> "typeinfer", expr |-> expr, type_expected |-> NoType,
     ctx |-> NoContext, overflow_checks |-> overflow_checks,
     result |-> Inferred(NoType, expr)]

Checking(expr, type_expected, ctx, overflow_checks) ==
    [phase |-> "typecheck", expr |-> expr, type_expected |-> type_expected,
     ctx |-> ctx, overflow_checks |-> overflow_checks, result |-> Passed(expr)]

InitWord ==
    /\ circuit = NoCircuit
    /\ net_values = <<>>
    /\ exts = {}
    /\ clock_ticks = 0
    /\ lastOp = Op("typecheck", NoPath, X)
    /\ pre = <<>>
    /\ trace = <<>>
    /\ overflow = FALSE
    /\ since_reset = NoClocks
    /\ nw = Idle
    /\ resolver \in
          {Inferring(ExprWord(Unset, w, bits), overflow_checks) :
              w \in Widths, bits \in Sizes, overflow_checks \in BOOLEAN}
          \cup {Checking(ExprWord(Unset, NoWidth, bits), TypeWord(w), NoContext,
                         overflow_checks) :
                  w \in Widths, bits \in Sizes, overflow_checks \in BOOLEAN}

Typeinfer ==
    /\ resolver.phase = "typeinfer"
    /\ resolver' = [resolver EXCEPT
                       !.phase = "inferred",
                       !.result = typeinfer(resolver.expr, resolver.ctx,
                                            resolver.overflow_checks)]
    /\ ResolveFrame

Typecheck ==
    /\ resolver.phase = "typecheck"
    /\ resolver' = [resolver EXCEPT
                       !.phase = "checked",
                       !.result = typecheck(resolver.expr, resolver.type_expected,
                                            resolver.ctx, resolver.overflow_checks)]
    /\ ResolveFrame

NextTypes ==
    \/ Typeinfer
    \/ Typecheck

SpecWord == InitWord /\ [][NextTypes]_vars

\* a value of `bits` significant bits is below 2^w
Below2ToThe(w, bits) == bits <= w

\* below 64 the literals are accepted as the claim says
WordLiteralFitsBelow64 ==
    /\ resolver.phase = "inferred" /\ resolver.expr.width < U64Bits =>
          (resolver.result.r = TypeWord(resolver.expr.width)
             <=> Below2ToThe(resolver.expr.width, resolver.expr.value))
    /\ resolver.phase = "checked" /\ resolver.type_expected.w < U64Bits =>
          (IsOk(resolver.result)
             <=> Below2ToThe(resolver.type_expected.w, resolver.expr.value))

\* C26: a word literal of value n is accepted at width w exactly when
\* n < 2^w, for every w from 0 to 64: typeinfer of Word(Some(w), n) gives
\* Word<w> iff n < 2^w, and typecheck of Word(None, n) against Word<w>
\* succeeds iff n < 2^w.
C26_WordLiteralFitsWidth ==
    /\ resolver.phase = "inferred" /\ resolver.expr.width <= U64Bits =>
          (resolver.result.r = TypeWord(resolver.expr.width)
             <=> Below2ToThe(resolver.expr.width, resolver.expr.value))
    /\ resolver.phase = "checked" /\ resolver.type_expected.w <= U64Bits =>
          (IsOk(resolver.result)
             <=> Below2ToThe(resolver.type_expected.w, resolver.expr.value))


-----------------------------------------------------------------------------
(* Type checking of expressions: well and ill typed operands, alone and    *)
(* together.                                                               *)

\* x: Word<8>, y: Word<1>; z is not declared
TypeContext == [path \in {<<"x">>, <<"y">>} |->
                   IF path = <<"x">> THEN TypeWord(8) ELSE TypeWord(1)]

ExpectedTypes == {TypeWord(8), TypeWord(1), TypeValid(TypeWord(8))}

\* references, literals with and without width (3 bits and 9 bits of
\* value) and a hole
TypedLeaves ==
    {ExprReference(Unset, <<id>>) : id \in {"x", "y", "z"}}
    \cup {ExprWord(Unset, 8, 3), ExprWord(Unset, 1, 1), ExprWord(Unset, NoWidth, 3),
          ExprWord(Unset, NoWidth, 9), ExprHole(Unset)}

Conds == {ExprReference(Unset, <<"y">>), ExprReference(Unset, <<"x">>)}

TypedCompound ==
    {ExprBinOp(Unset, op, e1, e2) :
        op \in {"Add", "Eq", "AddCarry"}, e1 \in TypedLeaves, e2 \in TypedLeaves}
    \cup {ExprIf(Unset, cond, e1, e2) :
            cond \in Conds, e1 \in TypedLeaves, e2 \in TypedLeaves}
    \cup {ExprMux(Unset, ExprReference(Unset, <<"y">>), e1, e2) :
            e1 \in TypedLeaves, e2 \in TypedLeaves}
    \cup {ExprLet(Unset, name, e, b) :
            name \in {"z", "x"}, e \in TypedLeaves, b \in TypedLeaves}
    \cup {ExprCtor(Unset, "Valid", <<e>>) : e \in TypedLeaves}
    \cup {ExprCtor(Unset, "Invalid", <<>>)}
    \cup {ExprUnOp(Unset, "Not", e) : e \in TypedLeaves}
    \cup {ExprCat(Unset, <<e1, e2>>) : e1 \in TypedLeaves, e2 \in TypedLeaves}
    \cup {ExprMatch(Unset, e, <<<<PatOtherwise, e>>>>) : e \in TypedLeaves}

\* operands that are themselves compound
TypedParts ==
    {ExprLet(Unset, "z", e, ExprReference(Unset, <<"z">>)) : e \in TypedLeaves}
    \cup {ExprBinOp(Unset, "Add", ExprReference(Unset, <<"x">>), e) : e \in TypedLeaves}
    \cup {ExprCat(Unset, <<ExprWord(Unset, 1, 1), e>>) : e \in TypedLeaves}
    \cup {ExprIf(Unset, ExprReference(Unset, <<"y">>), ExprHole(Unset), e) :
            e \in TypedLeaves}

TypedNested ==
    {ExprIf(Unset, ExprReference(Unset, <<"y">>), e1, e2) :
        e1 \in TypedParts, e2 \in TypedParts}
    \cup {ExprBinOp(Unset, "Add", e1, e2) : e1 \in TypedParts, e2 \in TypedParts}
    \cup {ExprCtor(Unset, "Valid", <<e>>) : e \in TypedParts}

TypedExprs == TypedLeaves \cup TypedCompound \cup TypedNested

InitTypes ==
    /\ circuit = NoCircuit
    /\ net_values = <<>>
    /\ exts = {}
    /\ clock_ticks = 0
    /\ lastOp = Op("typecheck", NoPath, X)
    /\ pre = <<>>
    /\ trace = <<>>
    /\ overflow = FALSE
    /\ since_reset = NoClocks
    /\ nw = Idle
    /\ resolver \in
          {Checking(expr, type_expected, TypeContext, overflow_checks) :
              expr \in TypedExprs, type_expected \in ExpectedTypes,
              overflow_checks \in BOOLEAN}
          \cup {Inferring(expr, overflow_checks) :
                  expr \in TypedLeaves, overflow_checks \in BOOLEAN}

SpecTypes == InitTypes /\ [][NextTypes]_vars

\* the operands typecheck checks against a type of their own, with it
Operands(expr, type_expected) ==
    CASE expr.k \in {"If", "Mux"} ->
            {<<expr.cond, TypeWord(1)>>, <<expr.e1, type_expected>>,
             <<expr.e2, type_expected>>}
      [] expr.k = "BinOp" /\ expr.op \in BinOpsSameType /\ type_expected.t = "Word" ->
            {<<expr.e1, type_expected>>, <<expr.e2, type_expected>>}
      [] OTHER -> {}

\* the operands that, checked on their own, are in error
IllTyped(expr, type_expected, ctx, overflow_checks) ==
    {o \in Operands(expr, type_expected) :
        typecheck(o[1], o[2], ctx, overflow_checks).errors # <<>>}

\* C27: type errors are collected: when several operands of one expression
\* are ill typed, typecheck reports an error for each of them.
C27_TypeErrorsCollected ==
    resolver.phase = "checked" =>
        Len(resolver.result.errors) >=
            Cardinality(IllTyped(resolver.expr, resolver.type_expected,
                                 resolver.ctx, resolver.overflow_checks))

\* what the code does instead: never more than one error
AtMostOneTypeError ==
    resolver.phase = "checked" => Len(resolver.result.errors) <= 1

RECURSIVE AllCellsSet(_)
AllCellsSet(expr) ==
    /\ expr.typ # Unset
    /\ \A e \in Children(expr) : AllCellsSet(e)

\* C28: after typecheck returns Ok for an expression, the type cell of the
\* expression and of every one of its sub-expressions is set.
C28_CellsSetAfterOk ==
    resolver.phase = "checked" /\ IsOk(resolver.result) =>
        AllCellsSet(resolver.result.e)

\* typecheck returned Ok for an expression with operands, before which no
\* cell was set
C28_Witness ==
    /\ resolver.phase = "checked"
    /\ IsOk(resolver.result)
    /\ resolver.expr.k = "If"
    /\ resolver.expr.e1.k = "Let"
    /\ ~AllCellsSet(resolver.expr.e1)
    /\ AllCellsSet(resolver.result.e)


-----------------------------------------------------------------------------
(* The phases of clock().                                                  *)

InitTicker == New({"Ticker"})

\* the externals are attached, in is poked, the circuit is clocked and reset
NextTicker ==
    \/ \E path \in DOMAIN Sims[circuit].c.exts : Ext(path)
    \/ \E value \in Values(Sims[circuit].c.width) : Poke(T("in"), value)
    \/ Clock
    \/ Reset

SpecTicker == InitTicker /\ [][NextTicker]_vars

\* the events of trace that are not within a call of broadcast_update
TopLevel == SelectSeq([i \in 1..Len(trace) |-> [at |-> i, e |-> trace[i]]],
                      LAMBDA x : Level(x.at - 1) = 0 /\ x.e.ev # "done")

\* the loop of clock() an event of its own is made in: the registers are
\* latched, the externals are clocked, their answers are poked, the
\* registers are broadcast
PhaseOf(e) ==
    CASE e.ev = "latch" -> 1
      [] e.ev = "ext_clock" -> 2
      [] e.ev = "broadcast" /\ e.path \notin Circ.regs -> 3
      [] e.ev = "broadcast" /\ e.path \in Circ.regs -> 4
      [] OTHER -> 0

\* every (path, value) the attached externals answer clock() with
RECURSIVE ClockAnswers(_)
ClockAnswers(ext_paths) ==
    IF ext_paths = <<>> THEN <<>>
    ELSE LET updates == ExtClock(Circ.exts[Head(ext_paths)].kind)
         IN  [i \in 1..Len(updates) |-> join(Head(ext_paths), updates[i][1])]
             \o ClockAnswers(Tail(ext_paths))

InPhase(n) == SelectSeq(TopLevel, LAMBDA x : PhaseOf(x.e) = n)

PathsIn(n) == [i \in 1..Len(InPhase(n)) |-> InPhase(n)[i].e.path]

\* C30: within one clock() the phases are strictly ordered: all registers
\* are latched from their .set before any external's clock() is invoked,
\* every external's clock() is invoked before any of the returned updates is
\* poked, and broadcast_update of the register paths happens only after all
\* those updates have been poked.
C30_ClockPhasesOrdered ==
    (lastOp.op = "clock" /\ ~overflow) =>
        /\ \A i \in 1..Len(TopLevel) : PhaseOf(TopLevel[i].e) \in 1..4
        /\ \A i, j \in 1..Len(TopLevel) :
              i < j => PhaseOf(TopLevel[i].e) <= PhaseOf(TopLevel[j].e)
        /\ PathsIn(1) = Sims[circuit].regs
        /\ PathsIn(2) = Sorted(exts)
        /\ PathsIn(3) = ClockAnswers(Sorted(exts))
        /\ PathsIn(4) = Sims[circuit].regs

\* a clock() of Ticker with both externals attached: two registers were
\* latched, two externals clocked, two answers poked, two registers broadcast
C30_Witness ==
    /\ circuit = "Ticker"
    /\ exts = {T("ext"), T("ext2")}
    /\ lastOp.op = "clock"
    /\ ~overflow
    /\ PathsIn(3) = <<<<"top", "ext", "o">>, <<"top", "ext2", "o">>>>
    /\ Len(TopLevel) = 8
    /\ Len(trace) > 8


-----------------------------------------------------------------------------
(* Attaching an external.                                                  *)

InitAttach == New({"ConstEcho", "EchoIn"})

SpecAttach == InitAttach /\ [][NextExt]_vars

\* the wires with a constant expression that drive an incoming port of the
\* external at the path
ConstantsInto(ext_path) ==
    {t \in DOMAIN Sims[circuit].wires :
        /\ is_constant(WireOf(t).expr)
        /\ parent(target_terminal(t, WireOf(t).typ)) = ext_path
        /\ port_name(target_terminal(t, WireOf(t).typ)) \in Circ.exts[ext_path].incoming}

\* C34: attaching an external with ext(path, inst) runs the propagation of
\* the constants again, so that when ext returns every constant wire that
\* drives one of the external's incoming ports has been delivered to
\* inst.update with the constant's value.
C34_ConstantsDeliveredOnAttach ==
    (lastOp.op = "ext" /\ ~overflow) =>
        \A t \in ConstantsInto(lastOp.path) :
            \E j \in 1..Len(trace) :
                trace[j] = Event("update", target_terminal(t, WireOf(t).typ),
                                 Eval(WireOf(t).expr))

\* the echo of ConstEcho was attached, received update("i", 1) and answered:
\* out, which was X before, is 1
C34_Witness ==
    /\ circuit = "ConstEcho"
    /\ lastOp = Op("ext", T("ext"), X)
    /\ ConstantsInto(T("ext")) = {<<"top", "ext", "i">>}
    /\ \E j \in 1..Len(trace) : trace[j] = Event("update", <<"top", "ext", "i">>, 1)
    /\ PeekBefore(T("out")) = X
    /\ Peek(T("out")) = 1

-----------------------------------------------------------------------------
(* Termination of poke, set, clock and reset.                              *)

\* circuits with and without a cycle of wires, with and without an external
\* whose answer comes back to it
InitTerm == New({"Diamond", "Counter", "Echo", "CombLoop", "Loopback"})

SpecTerm == InitTerm /\ [][Next]_vars

\* the wire dependency graph: from every path a wire's expression names to
\* the terminal the wire drives
WireEdges ==
    UNION {{<<q, target_terminal(t, WireOf(t).typ)>> : q \in paths(WireOf(t).expr)} :
              t \in DOMAIN Sims[circuit].wires}

\* from an incoming port of an attached external to every port its update
\* answers with
UpdateEdges ==
    UNION {UNION {{<<join(e, i), join(e, ExtUpdate(Circ.exts[e].kind, i, v)[k][1])>> :
                      k \in 1..Len(ExtUpdate(Circ.exts[e].kind, i, v))} :
                     i \in Circ.exts[e].incoming, v \in Values(Circ.width)} :
              e \in exts}

\* the terminals reached from the terminals of R along the edges of E
RECURSIVE ReachedFrom(_, _)
ReachedFrom(R, E) ==
    LET more == {e[2] : e \in {d \in E : d[1] \in R}}
    IN  IF more \subseteq R THEN R ELSE ReachedFrom(R \cup more, E)

Acyclic(E) == \A e \in E : e[1] \notin ReachedFrom({e[2]}, E)

\* no answer of an external's update propagates back into one of its own
\* incoming ports
NoFeedback ==
    \A u \in UpdateEdges :
        \A i \in Circ.exts[parent(u[1])].incoming :
            join(parent(u[1]), i) \notin ReachedFrom({u[2]}, WireEdges \cup UpdateEdges)

CyclicCallsOverflow ==
    overflow => ~(Acyclic(WireEdges) /\ NoFeedback)

CallsTerminate == ~overflow


-----------------------------------------------------------------------------
(* Terminals of one net.                                                   *)

\* the terminals of a net: Net::terminals
TerminalsOf(net) == {net.driver} \cup {net.drivees[i] : i \in 1..Len(net.drivees)}

\* the terminals that share a net with the path
NetMates(path) ==
    UNION {TerminalsOf(Sims[circuit].nets[id]) :
              id \in {n \in DOMAIN Sims[circuit].nets :
                          contains(Sims[circuit].nets[n], path)}}

\* a wire was evaluated into the net of the path during the last call
Redriven(path) ==
    \E j \in 1..Len(trace) :
        /\ trace[j].ev = "eval"
        /\ target_terminal(trace[j].path, WireOf(trace[j].path).typ) \in NetMates(path)

\* C32: in every reachable state two terminals of the same net peek to the
\* same value, and a poke or set of one terminal of a net is visible through
\* peek on every other terminal of that net (with the value written, unless
\* a wire drove the net again within the call).
C32_NetTerminalsPeekAlike ==
    /\ \A p \in Circ.terminals : \A q \in NetMates(p) : Peek(q) = Peek(p)
    /\ (lastOp.op \in {"poke", "set"} /\ ~overflow) =>
          \A q \in NetMates(lastOp.path) :
              /\ Peek(q) = Peek(lastOp.path)
              /\ ~Redriven(lastOp.path) => Peek(q) = lastOp.value

\* a poke of in is read back through b, which is wired to in and had
\* another value before
C32_Witness ==
    /\ circuit = "Alias"
    /\ lastOp = Op("poke", T("in"), 1)
    /\ T("b") \in NetMates(T("in"))
    /\ PeekBefore(T("b")) # 1
    /\ Peek(T("b")) = 1


-----------------------------------------------------------------------------
(* The pull-based Simulator (src/src/sim.rs).  A signal is identified by   *)
(* its position in the vector of signals; paths are sequences of segments. *)

Unknown == X

\* Dep
Disconnected == [d |-> "Disconnected"]
DepQuery(signal) == [d |-> "Query", s |-> signal]
DepReg(signal) == [d |-> "Reg", s |-> signal]

\* SignalState: values[0] is the previous cycle's value, values[1] this one's
SignalState(path, dep, v0, v1) == [path |-> path, dep |-> dep, v0 |-> v0, v1 |-> v1]

\* the module definitions a Simulator is built from
Port(name, dir) == [name |-> name, dir |-> dir]
CompReg(name, init) == [kind |-> "Reg", name |-> name, init |-> init]
CompMod(name, moddef_name) == [kind |-> "Mod", name |-> name, moddef_name |-> moddef_name]
Terminal(component, port) == [component |-> component, port |-> port]
PullWire(sink, source) == [sink |-> sink, source |-> source]
PullModDef(ports, components, pull_wires) ==
    [ports |-> ports, components |-> components, wires |-> pull_wires]

\* Simulator::signal_by_path: the first signal with the path (0: None)
signal_by_path(signals, path) ==
    LET found == {i \in 1..Len(signals) : signals[i].path = path}
    IN  IF found = {} THEN 0
        ELSE CHOOSE i \in found : \A j \in found : i <= j

\* add_signals, first loop: a signal per port
RECURSIVE add_ports(_, _, _)
add_ports(signals, ports, component_path) ==
    IF ports = <<>> THEN signals
    ELSE add_ports(Append(signals,
                          SignalState(Append(component_path, Head(ports).name),
                                      Disconnected, Unknown, Unknown)),
                   Tail(ports), component_path)

\* terminal_to_signal_path
terminal_to_signal_path(terminal, component_path) ==
    IF terminal.component = "io" THEN Append(component_path, terminal.port)
    ELSE component_path \o <<terminal.component, terminal.port>>

\* add_signals, third loop: the sink of every wire depends on its source
RECURSIVE add_wires(_, _, _)
add_wires(signals, pull_wires, component_path) ==
    IF pull_wires = <<>> THEN signals
    ELSE LET sink == signal_by_path(
                         signals,
                         terminal_to_signal_path(Head(pull_wires).sink, component_path))
             source == signal_by_path(
                           signals,
                           terminal_to_signal_path(Head(pull_wires).source, component_path))
         IN  add_wires([signals EXCEPT ![sink].dep = DepQuery(source)],
                       Tail(pull_wires), component_path)

RECURSIVE add_signals(_, _, _, _)
RECURSIVE add_components(_, _, _, _)

\* add_signals, second loop: the signals of a sub-module, or set and val of a
\* register
add_components(signals, pull_circuit, components, component_path) ==
    IF components = <<>> THEN signals
    ELSE LET component == Head(components)
             here == Append(component_path, component.name)
             added ==
                IF component.kind = "Mod"
                THEN add_signals(signals, pull_circuit, component.moddef_name, here)
                ELSE LET set_id == Len(signals) + 1
                     IN  signals \o
                         <<SignalState(Append(here, "set"), Disconnected,
                                       Unknown, component.init),
                           SignalState(Append(here, "val"), DepReg(set_id),
                                       Unknown, Unknown)>>
         IN  add_components(added, pull_circuit, Tail(components), component_path)

\* Simulator::add_signals
add_signals(signals, pull_circuit, module, component_path) ==
    LET mod_def == pull_circuit[module]
        with_ports == add_ports(signals, mod_def.ports, component_path)
        with_components == add_components(with_ports, pull_circuit,
                                          mod_def.components, component_path)
    IN  add_wires(with_components, mod_def.wires, component_path)

\* the name of the top module every Simulator here is made for
TopModule == "Top"

\* Simulator::top_output_signals
top_output_signals(signals, pull_circuit) ==
    LET outgoing == SelectSeq(pull_circuit[TopModule].ports,
                              LAMBDA port : port.dir = "Outgoing")
    IN  [i \in 1..Len(outgoing) |-> signal_by_path(signals, <<"top", outgoing[i].name>>)]

\* Simulator::poke
pull_poke(signals, signal, value) == [signals EXCEPT ![signal].v1 = value]

\* the outcome of a call in progress: the signals, the signals whose value
\* was computed by query (in order), whether an assertion or a panic ended
\* the call, whether the recursion was found not to end, and the queries in
\* progress with the signals they were entered with
Pulling(signals) ==
    [sig |-> signals, computed |-> <<>>, panic |-> FALSE, ov |-> FALSE, fr |-> {}]

Answer(st, val) == [st |-> st, val |-> val]

Computed(st, signal, val) ==
    [st EXCEPT !.sig = pull_poke(@, signal, val), !.computed = Append(@, signal)]

\* a register that is transparent: val is what set is computed to in this
\* cycle
RECURSIVE query_transparent(_, _)
query_transparent(st, signal) ==
    LET current_value == st.sig[signal].v1
        dep == st.sig[signal].dep
        entered == [st EXCEPT !.fr = @ \cup {<<signal, st.sig>>}]
    IN  IF st.panic \/ st.ov THEN Answer(st, Unknown)
        ELSE IF current_value # Unknown THEN Answer(st, current_value)
        ELSE IF <<signal, st.sig>> \in st.fr
        THEN Answer([st EXCEPT !.ov = TRUE], Unknown)
        ELSE IF dep.d \in {"Query", "Reg"}
        THEN LET got == query_transparent(entered, dep.s)
             IN  IF got.st.panic \/ got.st.ov THEN got
                 ELSE IF got.val = Unknown
                 THEN Answer([got.st EXCEPT !.panic = TRUE], Unknown)
                 ELSE Answer([Computed(got.st, signal, got.val) EXCEPT !.fr = st.fr],
                             got.val)
        ELSE Answer([st EXCEPT !.panic = TRUE], Unknown)

\* Simulator::query
RECURSIVE query(_, _)
query(st, signal) ==
    LET current_value == st.sig[signal].v1
        dep == st.sig[signal].dep
        entered == [st EXCEPT !.fr = @ \cup {<<signal, st.sig>>}]
    IN  IF st.panic \/ st.ov THEN Answer(st, Unknown)
        ELSE IF current_value # Unknown THEN Answer(st, current_value)
        ELSE IF <<signal, st.sig>> \in st.fr
        THEN Answer([st EXCEPT !.ov = TRUE], Unknown)
        ELSE IF dep.d = "Query"
        THEN LET got == query(entered, dep.s)
             IN  IF got.st.panic \/ got.st.ov THEN got
                 ELSE IF got.val = Unknown
                 THEN Answer([got.st EXCEPT !.panic = TRUE], Unknown)
                 ELSE Answer([Computed(got.st, signal, got.val) EXCEPT !.fr = st.fr],
                             got.val)
        ELSE IF dep.d = "Reg"
        THEN LET val == st.sig[dep.s].v0
             IN  IF val = Unknown
                 THEN Answer([st EXCEPT !.panic = TRUE], Unknown)
                 ELSE LET got == query(Computed(entered, signal, val), dep.s)
                      IN  IF got.st.panic \/ got.st.ov THEN got
                          ELSE Answer([got.st EXCEPT !.fr = st.fr], val)
        ELSE Answer([st EXCEPT !.panic = TRUE], Unknown)

\* Simulator::step, first loop: this cycle's values become the previous ones
shift(signals) ==
    [i \in 1..Len(signals) |->
        [signals[i] EXCEPT !.v0 = signals[i].v1, !.v1 = Unknown]]

\* Simulator::step, second loop
RECURSIVE poke_each(_, _)
poke_each(signals, pokes) ==
    IF pokes = <<>> THEN signals
    ELSE poke_each(pull_poke(signals, Head(pokes)[1], Head(pokes)[2]), Tail(pokes))

\* Simulator::step, third loop
RECURSIVE query_each(_, _)
query_each(st, outputs) ==
    IF outputs = <<>> THEN st
    ELSE query_each(query(st, Head(outputs)).st, Tail(outputs))

\* Simulator::step
step(signals, pull_circuit, pokes) ==
    query_each(Pulling(poke_each(shift(signals), pokes)),
               top_output_signals(signals, pull_circuit))


\* Simulator::new
pull_new(pull_circuit) == add_signals(<<>>, pull_circuit, TopModule, <<"top">>)

-----------------------------------------------------------------------------
(* The pull-based Simulator as a state machine: one action, step.          *)

\* step() calls followed
MaxSteps == 4

\* in -> r -> out and q
Pipe ==
    [m \in {TopModule} |->
        PullModDef(<<Port("in", "Incoming"), Port("out", "Outgoing"),
                     Port("q", "Outgoing")>>,
                   <<CompReg("r", 0)>>,
                   <<PullWire(Terminal("r", "set"), Terminal("io", "in")),
                     PullWire(Terminal("io", "out"), Terminal("r", "val")),
                     PullWire(Terminal("io", "q"), Terminal("r", "val"))>>)]

\* in -> a -> b -> out, the registers with different init values
Shift2 ==
    [m \in {TopModule} |->
        PullModDef(<<Port("in", "Incoming"), Port("out", "Outgoing")>>,
                   <<CompReg("a", 0), CompReg("b", 1)>>,
                   <<PullWire(Terminal("a", "set"), Terminal("io", "in")),
                     PullWire(Terminal("b", "set"), Terminal("a", "val")),
                     PullWire(Terminal("io", "out"), Terminal("b", "val"))>>)]

\* a register that keeps its value through the output port: out <- r; r <- out
Keep ==
    [m \in {TopModule} |->
        PullModDef(<<Port("out", "Outgoing")>>,
                   <<CompReg("r", 1)>>,
                   <<PullWire(Terminal("io", "out"), Terminal("r", "val")),
                     PullWire(Terminal("r", "set"), Terminal("io", "out"))>>)]

\* a register that keeps its value: r <- r; out <- r
Self ==
    [m \in {TopModule} |->
        PullModDef(<<Port("out", "Outgoing")>>,
                   <<CompReg("r", 1)>>,
                   <<PullWire(Terminal("r", "set"), Terminal("r", "val")),
                     PullWire(Terminal("io", "out"), Terminal("r", "val"))>>)]

\* the register inside a sub-module
Inner ==
    PullModDef(<<Port("i", "Incoming"), Port("o", "Outgoing")>>,
               <<CompReg("r", 0)>>,
               <<PullWire(Terminal("r", "set"), Terminal("io", "i")),
                 PullWire(Terminal("io", "o"), Terminal("r", "val"))>>)

Outer ==
    [m \in {TopModule, "Inner"} |->
        IF m = "Inner" THEN Inner
        ELSE PullModDef(<<Port("in", "Incoming"), Port("out", "Outgoing")>>,
                        <<CompMod("sub", "Inner")>>,
                        <<PullWire(Terminal("sub", "i"), Terminal("io", "in")),
                          PullWire(Terminal("io", "out"), Terminal("sub", "o"))>>)]

\* a cycle without a register: the sub-module passes i to o, and o is wired
\* to i
Through ==
    PullModDef(<<Port("i", "Incoming"), Port("o", "Outgoing")>>, <<>>,
               <<PullWire(Terminal("io", "o"), Terminal("io", "i"))>>)

Ring ==
    [m \in {TopModule, "Through"} |->
        IF m = "Through" THEN Through
        ELSE PullModDef(<<Port("in", "Incoming"), Port("out", "Outgoing")>>,
                        <<CompMod("sub", "Through")>>,
                        <<PullWire(Terminal("sub", "i"), Terminal("sub", "o")),
                          PullWire(Terminal("io", "out"), Terminal("sub", "o"))>>)]

PullCircuits ==
    [n \in {"Pipe", "Shift2", "Keep", "Self", "Outer", "Ring"} |->
        CASE n = "Pipe" -> Pipe
          [] n = "Shift2" -> Shift2
          [] n = "Keep" -> Keep
          [] n = "Self" -> Self
          [] n = "Outer" -> Outer
          [] n = "Ring" -> Ring]

PullValues == {0, 1}

\* the simulator of a circuit, before and after calls of step
Simulator(name, signals, before, cycle, st) ==
    [phase |-> "pull", name |-> name, signals |-> signals, before |-> before,
     cycle |-> cycle, computed |-> st.computed, panic |-> st.panic, ov |-> st.ov]

InitPull ==
    /\ circuit = NoCircuit
    /\ net_values = <<>>
    /\ exts = {}
    /\ clock_ticks = 0
    /\ lastOp = Op("new", NoPath, X)
    /\ pre = <<>>
    /\ trace = <<>>
    /\ overflow = FALSE
    /\ since_reset = NoClocks
    /\ nw = Idle
    /\ \E name \in DOMAIN PullCircuits :
          resolver = Simulator(name, pull_new(PullCircuits[name]),
                               pull_new(PullCircuits[name]), 0,
                               Pulling(pull_new(PullCircuits[name])))

\* the incoming ports of the top module, in order
TopInputs(pull_circuit) ==
    SelectSeq(pull_circuit[TopModule].ports, LAMBDA port : port.dir = "Incoming")

\* Simulator::step(domain, pokes), the pokes giving a value to some of the
\* incoming ports of the top module
Step(given) ==
    /\ resolver.phase = "pull"
    /\ ~resolver.panic /\ ~resolver.ov
    /\ resolver.cycle < MaxSteps
    /\ LET pull_circuit == PullCircuits[resolver.name]
           inputs == TopInputs(pull_circuit)
           all == [i \in 1..Len(inputs) |->
                      <<signal_by_path(resolver.signals, <<"top", inputs[i].name>>),
                        given[i]>>]
           pokes == SelectSeq(all, LAMBDA poke_value : poke_value[2] # Unknown)
           st == step(resolver.signals, pull_circuit, pokes)
       IN  resolver' = Simulator(resolver.name, st.sig, resolver.signals,
                                 resolver.cycle + 1, st)
    /\ UNCHANGED <<circuit, net_values, exts, clock_ticks, lastOp, pre, trace,
                   overflow, since_reset, nw>>

NextPull ==
    \E given \in [1..Len(TopInputs(PullCircuits[resolver.name])) ->
                     PullValues \cup {Unknown}] : Step(given)

SpecPull == InitPull /\ [][NextPull]_vars


\* the registers of the simulator: the positions of their val signals
RegVals == {i \in 1..Len(resolver.signals) : resolver.signals[i].dep.d = "Reg"}

\* the init value of the register whose val signal is at i, from the module
\* definitions
InitOf(i) ==
    LET name == resolver.signals[i].path[Len(resolver.signals[i].path) - 1]
        regs == UNION {{mod_def.components[k] : k \in 1..Len(mod_def.components)} :
                          mod_def \in {PullCircuits[resolver.name][m] :
                                          m \in DOMAIN PullCircuits[resolver.name]}}
    IN  (CHOOSE reg \in regs : reg.kind = "Reg" /\ reg.name = name).init

Stepped == resolver.phase = "pull" /\ resolver.cycle > 0 /\ ~resolver.panic /\ ~resolver.ov

\* C33: in every step() the value obtained for a register's val signal is
\* the value its set signal held at the end of the previous step, and in the
\* first step the register's init value; the register's set signal is then
\* recomputed for the current step.
C33_RegisterValIsPreviousSet ==
    Stepped =>
        \A i \in RegVals :
            resolver.signals[i].v1 # Unknown =>
                /\ resolver.signals[i].v1 =
                      IF resolver.cycle = 1 THEN InitOf(i)
                      ELSE resolver.before[resolver.signals[i].dep.s].v1
                /\ resolver.signals[resolver.signals[i].dep.s].v1 # Unknown
                /\ resolver.signals[i].dep.s \in
                      {resolver.computed[k] : k \in 1..Len(resolver.computed)}

\* in the second step of Shift2 a took the 1 poked into in during the first
\* step and b the 0 that a had then, while a's set was computed anew to the 0
\* poked into in
C33_Witness ==
    /\ Stepped
    /\ resolver.name = "Shift2"
    /\ resolver.cycle = 2
    /\ \E a, b \in RegVals :
          /\ resolver.signals[a].path = <<"top", "a", "val">>
          /\ resolver.signals[b].path = <<"top", "b", "val">>
          /\ resolver.signals[b].v1 = 0
          /\ resolver.before[b].v1 = 1
          /\ resolver.signals[a].v1 = 1
          /\ resolver.signals[resolver.signals[a].dep.s].v1 = 0


\* the dependencies of the signals that are not a register's: from a signal
\* to the signal it queries
QueryEdges ==
    {<<i, resolver.signals[i].dep.s>> :
        i \in {k \in 1..Len(resolver.signals) : resolver.signals[k].dep.d = "Query"}}

\* every cycle of signal dependencies passes through a register
CyclesThroughRegisters == Acyclic(QueryEdges)

\* how often query computed the value of the signal in the last step
TimesComputed(signal) ==
    Cardinality({k \in 1..Len(resolver.computed) : resolver.computed[k] = signal})

\* C35: step() terminates whenever every cycle of signal dependencies passes
\* through a register, and within one step each signal's value is computed
\* at most once and then reused.
C35_StepTerminatesComputingOnce ==
    (resolver.phase = "pull" /\ CyclesThroughRegisters) =>
        /\ ~resolver.ov
        /\ \A signal \in 1..Len(resolver.signals) : TimesComputed(signal) <= 1

\* step() returns whenever every cycle passes through a register
StepTerminates ==
    (resolver.phase = "pull" /\ CyclesThroughRegisters) => ~resolver.ov

\* no signal is computed more than twice, and only signals on a cycle
\* through a register are computed twice
ComputedTwiceOnlyOnCycles ==
    resolver.phase = "pull" =>
        \A signal \in 1..Len(resolver.signals) :
            /\ TimesComputed(signal) <= 2
            /\ TimesComputed(signal) = 2 =>
                  \E val \in RegVals :
                      /\ val \in ReachedFrom({signal}, QueryEdges)
                      /\ signal \in ReachedFrom({resolver.signals[val].dep.s}, QueryEdges)

-----------------------------------------------------------------------------
(* The CircuitNode builder (nettle/src/circuit.rs): Circuit::new, node,    *)
(* reg, incoming, outgoing, wire, instantiate and build, and the terminals *)
(* and nets of the Circuit that build returns.  The maps are functions     *)
(* from paths; types and reset values are left out.                        *)

NoEntries == [p \in {} |-> "none"]

\* BTreeMap::insert: a later entry replaces the one under the same key
insert(map, key, value) == (key :> value) @@ map

\* BTreeMap::remove
remove(map, key) == [k \in (DOMAIN map) \ {key} |-> map[k]]

val(p) == Append(p, "val")

\* relative_to(top, path): the path under the prefix
relative_to(top, path) == top \o path

\* Expr::relative_to: every reference under the prefix
RECURSIVE expr_relative_to(_, _)
expr_relative_to(e, top) ==
    CASE e.op = "Reference" -> Reference(relative_to(top, e.path))
      [] e.op = "Add" -> Add(expr_relative_to(e.e1, top), expr_relative_to(e.e2, top))
      [] OTHER -> e

\* Expr::expand_references_as_val: a reference to a component reads its .val
RECURSIVE expand_references_as_val(_)
expand_references_as_val(e) ==
    CASE e.op = "Reference" -> Reference(val(e.path))
      [] e.op = "Add" -> Add(expand_references_as_val(e.e1), expand_references_as_val(e.e2))
      [] OTHER -> e

\* Expr::expand_regs_as_val: a reference to a register reads its .val
RECURSIVE expand_regs_as_val(_, _)
expand_regs_as_val(e, rs) ==
    CASE e.op = "Reference" -> IF e.path \in rs THEN Reference(val(e.path)) ELSE e
      [] e.op = "Add" -> Add(expand_regs_as_val(e.e1, rs), expand_regs_as_val(e.e2, rs))
      [] OTHER -> e

\* Circuit::new
new(name) ==
    [paths |-> NoEntries,
     components |-> (<<"top">> :> "Mod"),
     wires |-> [p \in {} |-> Hole],
     path |-> <<name>>,
     exts |-> <<>>]

push(cn, name) == [cn EXCEPT !.path = Append(@, name)]

pop(cn) == [cn EXCEPT !.path = SubSeq(@, 1, Len(@) - 1)]

current_path(cn) == cn.path

\* format!("{path}.{name}"): a name is given by its segments, one unless
\* the name itself holds a dot
local_name_to_path(cn, name) == cn.path \o name

\* CircuitNode::node
node(cn, name) ==
    LET path == local_name_to_path(cn, name)
        val_path == val(local_name_to_path(cn, name))
        set_path == set(local_name_to_path(cn, name))
    IN  [cn EXCEPT !.paths = insert(@, path, "Node"),
                   !.components = insert(@, path, "Node"),
                   !.wires = insert(@, val_path, Reference(set_path))]

\* CircuitNode::incoming
incoming(cn, name) ==
    LET path == local_name_to_path(cn, name)
        set_path == set(local_name_to_path(cn, name))
        val_path == val(local_name_to_path(cn, name))
    IN  [cn EXCEPT !.paths = insert(insert(insert(@, set_path, "Outgoing"),
                                           val_path, "Outgoing"),
                                    path, "Incoming"),
                   !.components = insert(@, path, "Incoming")]

\* CircuitNode::outgoing
outgoing(cn, name) ==
    LET path == local_name_to_path(cn, name)
        set_path == set(local_name_to_path(cn, name))
        val_path == val(local_name_to_path(cn, name))
    IN  [cn EXCEPT !.paths = insert(insert(insert(@, set_path, "Outgoing"),
                                           val_path, "Outgoing"),
                                    path, "Outgoing"),
                   !.components = insert(@, path, "Outgoing")]

\* CircuitNode::reg
reg(cn, name) ==
    LET path == local_name_to_path(cn, name)
    IN  [cn EXCEPT !.paths = insert(insert(insert(@, path, "Reg"),
                                           set(path), "Node"),
                                    val(path), "Node"),
                   !.components = insert(@, path, "Reg")]

\* CircuitNode::wire
wire(cn, name, expr) ==
    LET set_path == set(local_name_to_path(cn, name))
    IN  [cn EXCEPT !.wires =
            insert(@, set_path,
                   expr_relative_to(expand_references_as_val(expr), current_path(cn)))]

\* the entries of a sub-circuit's map, each under relative_to(mod_path, path)
Copied(map, mod_path, keys, value(_)) ==
    [target \in {relative_to(mod_path, path) : path \in keys} |->
        value(map[CHOOSE path \in keys : relative_to(mod_path, path) = target])]

\* CircuitNode::instantiate
instantiate(cn, name, sub) ==
    LET mod_path == current_path(cn)
        pushed == push(cn, name)
        same(v) == v
        moved(expr) == expr_relative_to(expr, mod_path)
    IN  pop([pushed EXCEPT
                !.paths = Copied(sub.paths, mod_path, DOMAIN sub.paths, same) @@ @,
                !.components =
                    Copied(sub.components, mod_path,
                           (DOMAIN sub.components) \ {<<"top">>}, same)
                    @@ insert(@, current_path(pushed), "Mod"),
                !.wires = Copied(sub.wires, mod_path, DOMAIN sub.wires, moved) @@ @])

\* CircuitNode::regs
regs(cn) == {path \in DOMAIN cn.paths : cn.paths[path] = "Reg"}

\* expand_regs, its first loop: the wires onto a register, moved to its .set
RECURSIVE fix_sets(_, _, _)
fix_sets(ws, targets, rs) ==
    IF targets = <<>> THEN ws
    ELSE LET target == Head(targets)
         IN  IF target \in rs
             THEN fix_sets(insert(remove(ws, target), set(target), ws[target]),
                           Tail(targets), rs)
             ELSE fix_sets(ws, Tail(targets), rs)

\* CircuitNode::expand_regs
expand_regs(cn) ==
    LET rs == regs(cn)
        fixed == fix_sets(cn.wires, Sorted(DOMAIN cn.wires), rs)
    IN  [cn EXCEPT !.wires =
            [target \in DOMAIN fixed |-> expand_regs_as_val(fixed[target], rs)]]

\* CircuitNode::build
build(cn) == expand_regs(cn)

\* the terminals terminals() pushes for one component
terminals_of(path, component) ==
    CASE component = "Incoming" -> <<val(path)>>
      [] component = "Outgoing" -> <<set(path)>>
      [] component = "Node" -> <<val(path), set(path)>>
      [] component = "Reg" -> <<val(path), set(path)>>
      [] OTHER -> <<>>

RECURSIVE terminals_from(_, _)
terminals_from(c, order) ==
    IF order = <<>> THEN <<>>
    ELSE terminals_of(Head(order), c.components[Head(order)])
             \o terminals_from(c, Tail(order))

\* Circuit::terminals
terminals(c) == terminals_from(c, Sorted(DOMAIN c.components))

\* Circuit::nets, its first loop
circuit_immediate_driver_for(c) ==
    [target \in {t \in DOMAIN c.wires : c.wires[t].op = "Reference"} |->
        c.wires[target].path]

\* driver_for leaves its loop from every terminal of the circuit
WalksEnd(c) ==
    LET idf == circuit_immediate_driver_for(c)
        ts == terminals(c)
    IN  \A i \in 1..Len(ts) :
            Follow(ts[i], idf, Cardinality(DOMAIN idf) + 1) \notin DOMAIN idf

\* Circuit::nets
circuit_nets(c) ==
    LET idf == circuit_immediate_driver_for(c)
        ts == terminals(c)
        drivers == {driver_for(ts[i], idf) : i \in 1..Len(ts)}
        order == Sorted(drivers)
        added(id) == {ts[i] : i \in {k \in 1..Len(ts) :
                                        driver_for(ts[k], idf) = order[id + 1]}}
    IN  [id \in 0..(Len(order) - 1) |-> Net(order[id + 1], added(id))]

-----------------------------------------------------------------------------
(* The builder as a state machine: one action per call of the builder, one *)
(* for a circuit that becomes the sub-circuit of a new one, one for build. *)

\* calls of node, reg, incoming, outgoing and wire that are followed, over
\* all the circuits of a design
MaxCalls == 2
\* circuits that enclose the first one
MaxNesting == 2

\* names of components, of circuits and of instances
ComponentNames == {<<"a">>, <<"val">>, <<"a", "val">>}
RootNames == {"top", "a"}
InstanceNames == {"sub"}

\* the expressions handed to wire: a local name, a name inside the
\* sub-circuit and a literal
WireExprs == {Reference(<<"a">>), Reference(<<"a", "val">>), Word(1)}

NoSub == [path |-> <<>>]

Builder(cn, sub, nesting, calls) ==
    [phase |-> "builder", cn |-> cn, sub |-> sub, nesting |-> nesting,
     calls |-> calls, built |-> FALSE, returned |-> FALSE, nets |-> <<>>]

InitBuilder ==
    /\ circuit = NoCircuit
    /\ net_values = <<>>
    /\ exts = {}
    /\ clock_ticks = 0
    /\ lastOp = Op("new", NoPath, X)
    /\ pre = <<>>
    /\ trace = <<>>
    /\ overflow = FALSE
    /\ since_reset = NoClocks
    /\ nw = Idle
    /\ \E name \in RootNames : resolver = Builder(new(name), NoSub, 0, 0)

Building ==
    /\ resolver.phase = "builder"
    /\ ~resolver.built
    /\ resolver.calls < MaxCalls

Called(cn) ==
    /\ resolver' = [resolver EXCEPT !.cn = cn, !.calls = @ + 1]
    /\ UNCHANGED <<circuit, net_values, exts, clock_ticks, lastOp, pre, trace,
                   overflow, since_reset, nw>>

NodeCall(name) == Building /\ Called(node(resolver.cn, name))

RegCall(name) == Building /\ Called(reg(resolver.cn, name))

IncomingCall(name) == Building /\ Called(incoming(resolver.cn, name))

OutgoingCall(name) == Building /\ Called(outgoing(resolver.cn, name))

WireCall(name, expr) == Building /\ Called(wire(resolver.cn, name, expr))

InstantiateCall(name) ==
    /\ resolver.phase = "builder"
    /\ ~resolver.built
    /\ resolver.sub # NoSub
    /\ resolver' = [resolver EXCEPT
                        !.cn = instantiate(resolver.cn, name, resolver.sub)]
    /\ UNCHANGED <<circuit, net_values, exts, clock_ticks, lastOp, pre, trace,
                   overflow, since_reset, nw>>

\* the circuit so far becomes the sub-circuit of a circuit that is begun
Enclose(name) ==
    /\ resolver.phase = "builder"
    /\ ~resolver.built
    /\ resolver.nesting < MaxNesting
    /\ resolver' = [resolver EXCEPT !.cn = new(name), !.sub = resolver.cn,
                                    !.nesting = @ + 1]
    /\ UNCHANGED <<circuit, net_values, exts, clock_ticks, lastOp, pre, trace,
                   overflow, since_reset, nw>>

\* build(), and then nets() of the Circuit: it returns unless driver_for
\* walks along a cycle of reference wires
BuildCall ==
    /\ resolver.phase = "builder"
    /\ ~resolver.built
    /\ LET c == build(resolver.cn)
       IN  resolver' = [resolver EXCEPT
                           !.cn = c, !.built = TRUE, !.returned = WalksEnd(c),
                           !.nets = IF WalksEnd(c) THEN circuit_nets(c) ELSE <<>>]
    /\ UNCHANGED <<circuit, net_values, exts, clock_ticks, lastOp, pre, trace,
                   overflow, since_reset, nw>>

NextBuilder ==
    \/ \E name \in ComponentNames : NodeCall(name)
    \/ \E name \in ComponentNames : RegCall(name)
    \/ \E name \in ComponentNames : IncomingCall(name)
    \/ \E name \in ComponentNames : OutgoingCall(name)
    \/ \E name \in ComponentNames, expr \in WireExprs : WireCall(name, expr)
    \/ \E name \in InstanceNames : InstantiateCall(name)
    \/ \E name \in RootNames : Enclose(name)
    \/ BuildCall

SpecBuilder == InitBuilder /\ [][NextBuilder]_vars

\* the Node components of the circuit that was built
NodesBuilt ==
    {p \in DOMAIN resolver.cn.components : resolver.cn.components[p] = "Node"}

\* the net of the terminal
NetsWith(terminal) ==
    {id \in DOMAIN resolver.nets : contains(resolver.nets[id], terminal)}

\* p.val and p.set are in one net, whose driver is p.set or the driver of
\* p.set
NodeSharesNet(p) ==
    /\ NetsWith(val(p)) # {}
    /\ NetsWith(val(p)) = NetsWith(set(p))
    /\ \A id \in NetsWith(val(p)) :
          \/ resolver.nets[id].driver = set(p)
          \/ resolver.nets[id].driver =
                 driver_for(set(p), circuit_immediate_driver_for(resolver.cn))

\* C37: in a Circuit built by the builder, for every Node component at path
\* p, at any instantiation depth, the terminals p.val and p.set belong to the
\* same net, and that net's driver is p.set or the driver p.set is itself
\* connected to.
C37_NodeValAndSetShareNet ==
    (resolver.phase = "builder" /\ resolver.built /\ resolver.returned) =>
        \A p \in NodesBuilt : NodeSharesNet(p)

\* a register of the circuit has the path of the node's .val or .set
RegisterOnTerminal(p) ==
    val(p) \in regs(resolver.cn) \/ set(p) \in regs(resolver.cn)

\* the nodes whose .val and .set are the path of no register share a net
NodesShareNetUnlessRegisterOnTerminal ==
    (resolver.phase = "builder" /\ resolver.built /\ resolver.returned) =>
        \A p \in NodesBuilt : ~RegisterOnTerminal(p) => NodeSharesNet(p)

\* a circuit was built with a node two instantiations deep and a node whose
\* .set is driven by a reference, and nets() returned
NodesBuiltDeepAndDriven ==
    /\ resolver.phase = "builder" /\ resolver.built /\ resolver.returned
    /\ \E p \in NodesBuilt : Len(p) >= 4 /\ ~RegisterOnTerminal(p)
    /\ \E p \in NodesBuilt :
          /\ ~RegisterOnTerminal(p)
          /\ \E id \in NetsWith(val(p)) : resolver.nets[id].driver # set(p)

\* nets() returns for every circuit that is built
NetsOfBuiltCircuitsReturn ==
    (resolver.phase = "builder" /\ resolver.built) => resolver.returned

=============================================================================
